---- MODULE Spec2Model ----
(***************************************************************************)
(* Cluster-wide GPU configuration analyzer                                 *)
(* (src/task1/scripts/cluster_wide_gpu_debug.py).                          *)
(*                                                                         *)
(* Spec        the orchestrator analyze_cluster: a thread pool of          *)
(*             analyze_single_node workers, result collection, the         *)
(*             cleanup sweep, KeyboardInterrupt in the main thread.        *)
(* SpecRun     Spec without KeyboardInterrupt: the runs in which           *)
(*             analyze_cluster returns normally or waits for a worker.     *)
(* SpecLive    SpecRun without calls that never return, with the threads   *)
(*             scheduled fairly.                                           *)
(* SpecDeploy  one call of deploy_debug_pod, one step per kubectl call,    *)
(*             with the readiness loop unrolled poll by poll.              *)
(* SpecReport  config discovery on one node over a range of hosts and      *)
(*             exec outcomes, followed by get_runtime_config_issues.       *)
(* SpecAggregate  get_runtime_config_issues and the summary and             *)
(*             recommendation lists of print_cluster_report over results   *)
(*             mappings in every completion order.                         *)
(* SpecInspect the marker test and the BinaryName extraction on config     *)
(*             texts, character by character.                              *)
(* SpecToolkit _validate_toolkit_config over toolkit sections of the       *)
(*             release values.                                             *)
(* SpecStatus  the cluster-level status fetches of print_cluster_report.   *)
(* SpecPending the selection of pending GPU pods from a pod listing.       *)
(***************************************************************************)
EXTENDS Integers, Sequences, FiniteSets, TLC

\* ------------------------------------------------------------------ bounds

\* largest number of nodes node discovery returns
MaxNodes == 2
\* largest max_workers the analyzer is constructed with
MaxWorkers == 2
\* largest number of KeyboardInterrupts delivered to the main thread
MaxInterrupts == 2

\* ------------------------------------------------------- program constants

\* for attempt in range(60)
PollLimit == 60
\* len(config_paths)
NumConfigPaths == 5

None == "None"

\* ------------------------------------------------------------- node names

\* Node names are character sequences, so that the pod-name derivation
\* (str.replace) is computed and not assumed injective.
N1 == <<"a", ".", "b">>
N2 == <<"a", "-", "b">>
N3 == <<"c">>

\* The orders in which node discovery may list the cluster's nodes; the
\* discovered list is a prefix of one of them.
DiscoveryOrders == { <<N1, N3, N2>>, <<N1, N2, N3>> }

NodeLists ==
  { SubSeq(o, 1, k) : o \in DiscoveryOrders, k \in 0..MaxNodes }

AllNodes == { N1, N2, N3 }

\* node_name.replace('.', '-')
RECURSIVE ReplaceDots(_)
ReplaceDots(s) ==
  IF s = <<>> THEN <<>>
  ELSE <<IF Head(s) = "." THEN "-" ELSE Head(s)>> \o ReplaceDots(Tail(s))

\* f"{self.debug_pod_prefix}-{node_name.replace('.', '-')}"
PodName(n) == <<"gpu-debug", "-">> \o ReplaceDots(n)

PodNames == { PodName(n) : n \in AllNodes }

\* (mutant) /dev is mounted writable
CreateDebugPodSpec_WritableDev(n) ==
  [ metadata |->
      [ name |-> PodName(n), namespace |-> "self.namespace",
        labels |-> [app |-> "gpu-cluster-debug", node |-> n] ],
    spec |->
      [ nodeName |-> n,
        hostNetwork |-> TRUE, hostPID |-> TRUE, hostIPC |-> TRUE,
        restartPolicy |-> "Never",
        containers |->
          << [ name |-> "debug", image |-> "python:3.9-slim",
               command |-> << "/bin/sleep", "300" >>,
               securityContext |-> [privileged |-> TRUE],
               volumeMounts |->
                 << [name |-> "host-etc", mountPath |-> "/host/etc", readOnly |-> TRUE],
                    [name |-> "host-var", mountPath |-> "/host/var", readOnly |-> TRUE],
                    [name |-> "host-usr", mountPath |-> "/host/usr", readOnly |-> TRUE],
                    [name |-> "host-dev", mountPath |-> "/host/dev", readOnly |-> FALSE] >> ] >>,
        volumes |->
          << [name |-> "host-etc", hostPath |-> "/etc"],
             [name |-> "host-var", hostPath |-> "/var"],
             [name |-> "host-usr", hostPath |-> "/usr"],
             [name |-> "host-dev", hostPath |-> "/dev"] >> ] ]

\* create_debug_pod_spec: the manifest handed to kubectl apply
CreateDebugPodSpec(n) ==
  [ metadata |->
      [ name |-> PodName(n), namespace |-> "self.namespace",
        labels |-> [app |-> "gpu-cluster-debug", node |-> n] ],
    spec |->
      [ nodeName |-> n,
        hostNetwork |-> TRUE, hostPID |-> TRUE, hostIPC |-> TRUE,
        restartPolicy |-> "Never",
        containers |->
          << [ name |-> "debug", image |-> "python:3.9-slim",
               command |-> << "/bin/sleep", "300" >>,
               securityContext |-> [privileged |-> TRUE],
               volumeMounts |->
                 << [name |-> "host-etc", mountPath |-> "/host/etc", readOnly |-> TRUE],
                    [name |-> "host-var", mountPath |-> "/host/var", readOnly |-> TRUE],
                    [name |-> "host-usr", mountPath |-> "/host/usr", readOnly |-> TRUE],
                    [name |-> "host-dev", mountPath |-> "/host/dev", readOnly |-> TRUE] >> ] >>,
        volumes |->
          << [name |-> "host-etc", hostPath |-> "/etc"],
             [name |-> "host-var", hostPath |-> "/var"],
             [name |-> "host-usr", hostPath |-> "/usr"],
             [name |-> "host-dev", hostPath |-> "/dev"] >> ] ]

\* get_cluster_nodes: the names of the listing, in its order; any exception
\* (kubectl exits nonzero, the JSON does not parse, a key is missing) is
\* printed and the empty list is returned.
GetClusterNodes(listing, failed) == IF failed THEN <<>> ELSE listing

\* ------------------------------------------------- cluster API: pod store

\* What `kubectl get pod` can show of one pod name: no such pod, or the pod's
\* phase; "Ready" is phase Running with containerStatuses[0].ready = true.
PodStates == { "absent", "Pending", "Running", "Ready", "Succeeded", "Failed" }

\* jsonpath={.status.phase} of a pod in state st ("" when the get fails)
PhaseOf(st) ==
  CASE st = "absent" -> ""
    [] st = "Ready" -> "Running"
    [] OTHER -> st

\* jsonpath={.status.containerStatuses[0].ready}
ReadyOf(st) == IF st = "Ready" THEN "true" ELSE IF st = "absent" THEN "" ELSE "false"

\* stdout of `kubectl describe pod` (its tail is put in the error message)
Describe(st) == IF st = "absent" THEN "" ELSE st

\* `kubectl exec` reaches a container only while the pod is running
ExecReaches(st) == st \in { "Running", "Ready" }

\* `kubectl delete pod ... --ignore-not-found=true`: the exit status, given
\* whether the pod existed and whether the API served the request.
DeleteRCNoIgnore(existed, served) == IF served /\ existed THEN 0 ELSE 1
DeleteRC(existed, served) == IF served THEN 0 ELSE 1

\* ------------------------------------------------------------ data model

ErrNone == [kind |-> None, details |-> ""]
Err(k, d) == [kind |-> k, details |-> d]

\* @dataclass ContainerdConfig
ContainerdConfig(n, path, ex, conf, content, bname, bex, err) ==
  [ node_name |-> n, config_path |-> path, exists |-> ex,
    nvidia_runtime_configured |-> conf, config_content |-> content,
    binary_name |-> bname, binary_exists |-> bex, error |-> err ]

\* @dataclass NodeGPUStatus
NodeGPUStatus(n, configs, symptoms, deployed, err) ==
  [ node_name |-> n, containerd_configs |-> configs,
    gpu_failure_symptoms |-> symptoms, debug_pod_deployed |-> deployed,
    execution_error |-> err ]

\* ------------------------------------------------------- host file systems

\* A config file's text, by what the inspector looks for in it: the two
\* markers (case-folded) and the right-hand side of its BinaryName line.
Text(nv, rc, bin) == [present |-> TRUE, nvidia |-> nv, runc |-> rc, binary |-> bin]
Missing == [present |-> FALSE, nvidia |-> FALSE, runc |-> FALSE, binary |-> ""]
\* config_content = ""
EmptyText == Text(FALSE, FALSE, "")

RuntimeBin == "/usr/bin/nvidia-container-runtime"

\* A host: the file at each candidate path and whether the declared binary
\* is on disk.  The three hosts of the end-to-end scenario.
HostA ==
  [ files |-> [k \in 1..NumConfigPaths |->
                 IF k = 2 THEN Text(TRUE, TRUE, RuntimeBin) ELSE Missing],
    binary |-> TRUE ]
HostB == [ HostA EXCEPT !.binary = FALSE ]
HostC == [ files |-> [k \in 1..NumConfigPaths |-> Missing], binary |-> FALSE ]

\* The host behind each node name.
HostOf(n) == IF n = N1 THEN HostA ELSE IF n = N2 THEN HostB ELSE HostC

\* How the kubectl exec calls of one candidate path end.
ExecOutcomes == { "ok", "raise" }

\* ------------------------------------------------------ config discovery

\* _extract_and_verify_binary: the first BinaryName line's right-hand side,
\* then `test -f /host<path>` in the pod (timeout=10); an exec that fails or
\* times out leaves binary_exists False.
ExtractAndVerifyBinary(text, hostHasBinary, execOK) ==
  IF text.binary = ""
    THEN [binary_name |-> "", binary_exists |-> FALSE]
    ELSE [binary_name |-> text.binary,
          binary_exists |-> (execOK /\ hostHasBinary)]

\* (mutant) the binary is extracted and verified whatever the marker test says
ConfigRecord_AlwaysExtracts(n, k, host, reaches, out) ==
  LET file == host.files[k]
      exists == reaches /\ out # "test_fail" /\ file.present
      bin == ExtractAndVerifyBinary(file, host.binary,
                                    reaches /\ out # "bin_fail")
  IN  IF out = "raise"
        THEN ContainerdConfig(n, k, FALSE, FALSE, EmptyText, "", FALSE, "Exception")
      ELSE IF ~exists
        THEN ContainerdConfig(n, k, FALSE, FALSE, EmptyText, "", FALSE, None)
      ELSE IF out = "cat_fail"
        THEN ContainerdConfig(n, k, TRUE, FALSE, EmptyText, "", FALSE, "Failed to read file")
      ELSE ContainerdConfig(n, k, TRUE, file.nvidia /\ file.runc, file,
                            bin.binary_name, bin.binary_exists, None)

\* One iteration of the loop over config_paths in
\* get_containerd_config_from_node: the record appended for path k.
ConfigRecord(n, k, host, reaches, out) ==
  LET file == host.files[k]
      exists == reaches /\ out # "test_fail" /\ file.present
      configured == file.nvidia /\ file.runc
      bin == ExtractAndVerifyBinary(file, host.binary,
                                    reaches /\ out # "bin_fail")
  IN  IF out = "raise"
        THEN ContainerdConfig(n, k, FALSE, FALSE, EmptyText, "", FALSE, "Exception")
      ELSE IF ~exists
        THEN ContainerdConfig(n, k, FALSE, FALSE, EmptyText, "", FALSE, None)
      ELSE IF out = "cat_fail"
        THEN ContainerdConfig(n, k, TRUE, FALSE, EmptyText, "", FALSE, "Failed to read file")
      ELSE IF configured
        THEN ContainerdConfig(n, k, TRUE, TRUE, file, bin.binary_name,
                              bin.binary_exists, None)
      ELSE ContainerdConfig(n, k, TRUE, FALSE, file, "", FALSE, None)

\* (mutant) a path whose file is not there gets no record
GetContainerdConfigFromNode_OmitsMissing(n, host, reaches, outs) ==
  LET Exists(c) == c.exists
  IN  SelectSeq([k \in 1..NumConfigPaths |->
                   ConfigRecord(n, k, host, reaches, outs[k])], Exists)

\* get_containerd_config_from_node: one record per candidate path, in the
\* order of config_paths.
GetContainerdConfigFromNode(n, host, reaches, outs) ==
  [k \in 1..NumConfigPaths |-> ConfigRecord(n, k, host, reaches, outs[k])]

\* ------------------------------------------------------------ issue list

\* any(c.nvidia_runtime_configured for c in result.containerd_configs
\*     if c.exists)
HasNvidiaRuntime(status) ==
  \E k \in DOMAIN status.containerd_configs :
    /\ status.containerd_configs[k].exists
    /\ status.containerd_configs[k].nvidia_runtime_configured

\* if config.nvidia_runtime_configured and config.binary_name
\*    and not config.binary_exists
BinaryReportedMissing(c) ==
  c.nvidia_runtime_configured /\ c.binary_name # "" /\ ~c.binary_exists

\* (mutant) execution_error is not looked at
NodeIssues_IgnoresError(status) ==
  LET missing == SelectSeq(status.containerd_configs, BinaryReportedMissing)
  IN  (IF HasNvidiaRuntime(status)
         THEN << >>
         ELSE << [kind |-> "NVIDIA runtime not configured",
                  node |-> status.node_name, binary |-> ""] >>)
      \o [k \in 1..Len(missing) |->
            [kind |-> "NVIDIA runtime binary not found",
             node |-> status.node_name,
             binary |-> missing[k].binary_name]]

\* The issues one entry of results contributes, in the order appended.
NodeIssues(status) ==
  IF status.execution_error # ErrNone
    THEN << >>
    ELSE LET missing == SelectSeq(status.containerd_configs, BinaryReportedMissing)
         IN  (IF HasNvidiaRuntime(status)
                THEN << >>
                ELSE << [kind |-> "NVIDIA runtime not configured",
                         node |-> status.node_name, binary |-> ""] >>)
             \o [k \in 1..Len(missing) |->
                   [kind |-> "NVIDIA runtime binary not found",
                    node |-> status.node_name,
                    binary |-> missing[k].binary_name]]

\* get_runtime_config_issues(results): results as the list of its values in
\* insertion order.
RECURSIVE GetRuntimeConfigIssues(_)
GetRuntimeConfigIssues(res) ==
  IF res = << >> THEN << >>
  ELSE NodeIssues(Head(res)) \o GetRuntimeConfigIssues(Tail(res))

\* Recommendations of print_cluster_report: error_nodes, unconfigured_nodes
\* and missing_binary_nodes as one entry of results adds to them.
RECURSIVE Recommend(_, _)
Recommend(res, acc) ==
  IF res = << >> THEN acc
  ELSE LET status == Head(res)
           missing == SelectSeq(status.containerd_configs, BinaryReportedMissing)
       IN  Recommend(Tail(res),
             IF status.execution_error # ErrNone
               THEN [acc EXCEPT !.error_nodes = Append(@, status.node_name)]
             ELSE IF ~HasNvidiaRuntime(status)
               THEN [acc EXCEPT !.unconfigured_nodes = Append(@, status.node_name)]
             ELSE [acc EXCEPT !.missing_binary_nodes = @ \o
                     [k \in 1..Len(missing) |->
                        [node |-> status.node_name,
                         binary_path |-> missing[k].binary_name,
                         config_path |-> missing[k].config_path]]])

Recommendations(res) ==
  Recommend(res, [missing_binary_nodes |-> << >>, unconfigured_nodes |-> << >>,
                  error_nodes |-> << >>])

\* NODE-LEVEL SUMMARY of print_cluster_report: the counters as one entry of
\* results changes them.
RECURSIVE Summarize(_, _)
Summarize(res, acc) ==
  IF res = << >> THEN acc
  ELSE LET status == Head(res)
           cfgs == status.containerd_configs
           has_config == \E k \in DOMAIN cfgs : cfgs[k].exists
           has_nvidia == \E k \in DOMAIN cfgs : cfgs[k].nvidia_runtime_configured
           missing == \E k \in DOMAIN cfgs : BinaryReportedMissing(cfgs[k])
           Inc(b) == IF b THEN 1 ELSE 0
       IN  Summarize(Tail(res),
             IF status.execution_error # ErrNone
               THEN [acc EXCEPT !.nodes_with_errors = @ + 1]
               ELSE [acc EXCEPT
                       !.nodes_with_configs = @ + Inc(has_config),
                       !.nodes_with_nvidia_runtime = @ + Inc(has_nvidia),
                       !.nodes_with_missing_binary = @ + Inc(has_nvidia /\ missing)])

Summary(res) ==
  Summarize(res, [total_nodes |-> Len(res), nodes_with_nvidia_runtime |-> 0,
                  nodes_with_errors |-> 0, nodes_with_configs |-> 0,
                  nodes_with_missing_binary |-> 0])

\* ------------------------------------------------------------------ state

VARIABLES
  discoveryFailed, \* get_cluster_nodes() ended in its except branch
  nodes,        \* get_cluster_nodes(): the discovered node names, in order
  cleanup,      \* analyze_cluster's argument
  max_workers,  \* self.max_workers
  pods,         \* the cluster: pod name -> PodStates
  apc,          \* where the main thread is inside analyze_cluster
  exc,          \* a KeyboardInterrupt is propagating out of analyze_cluster
  interrupts,   \* KeyboardInterrupts delivered so far
  wpc,          \* per submitted node: where its analyze_single_node call is
  wcfg,         \* per node: containerd_configs, once discovered
  wres,         \* per node: what its future holds once done
  results,      \* the results dict
  collected,    \* futures as_completed has yielded
  sweepIdx,     \* cleanup_debug_pods: index of the next node
  writes,       \* history: node name -> number of results[name] = ... executed
  deletes,      \* history: pod name -> kubectl delete calls issued for it
  lastDelete,   \* history: pod name -> the latest kubectl delete of it
  sweepCut,     \* history: a KeyboardInterrupt ended the sweep early
  creates,      \* history: node index -> kubectl apply calls of its worker
  found,        \* history: node index -> its worker's lookup found the pod
  ownFail,      \* history: node index -> its own provisioning or analysis failed
  dpc,          \* deploy_debug_pod (SpecDeploy): position
  attempt,      \* deploy_debug_pod: the loop variable
  dobs,         \* deploy_debug_pod: what the polls of this call observed
  dret,         \* deploy_debug_pod: the returned (success, pod_name_or_error)
  rpc,          \* report (SpecReport): position
  rin,          \* report: the host, the pod's reachability, the exec outcomes
  rstat,        \* report: the NodeGPUStatus of the one node of results
  issues,       \* report: the list get_runtime_config_issues returned
  rres,         \* report: the values of results, in insertion order
  buckets,      \* report: the node lists and counts print_cluster_report builds
  rec,          \* inspection: the ContainerdConfig built from a fetched text
  validation,   \* release check: what _validate_toolkit_config returned
  cstatus       \* cluster-level status: what each fetch returned

vars == << nodes, cleanup, max_workers, pods, apc, exc, interrupts, wpc, wcfg,
           wres, results, collected, sweepIdx, writes, deletes, lastDelete,
           sweepCut, creates, found, ownFail, dpc, attempt, dobs, dret,
           discoveryFailed, rpc, rin, rstat, issues, rres, buckets, rec,
           validation, cstatus >>

clusterVars == << nodes, cleanup, max_workers, apc, exc, interrupts, wpc, wcfg,
                  wres, results, collected, sweepIdx, writes, deletes,
                  lastDelete, sweepCut, creates, found, ownFail,
                  discoveryFailed >>
deployVars == << dpc, attempt, dobs, dret >>
aggVars == << rres, buckets, rec, validation, cstatus >>
reportVars == << rpc, rin, rstat, issues, aggVars >>
mainVars == << apc, exc, interrupts, results, collected, sweepIdx, writes,
               deletes, lastDelete, sweepCut >>
workerVars == << wpc, wcfg, wres, creates, found, ownFail >>
inputs == << discoveryFailed, nodes, cleanup, max_workers >>

Idx == 1..Len(nodes)
NodeSet == { nodes[i] : i \in Idx }
Pod(i) == PodName(nodes[i])

NoDelete == [existed |-> FALSE, served |-> FALSE, rc |-> -1]
NoStatus == NodeGPUStatus(<<>>, <<>>, None, FALSE, ErrNone)
NoObs == [polls |-> 0, phase |-> "-", ready |-> "-", desc |-> "-",
          created |-> FALSE, raised |-> FALSE,
          applied |-> CreateDebugPodSpec(<< >>)]
NoRet == [returned |-> FALSE, success |-> FALSE, pod_name |-> <<>>,
          error |-> ErrNone]

DeployIdle ==
  /\ dpc = "idle" /\ attempt = 0 /\ dobs = NoObs /\ dret = NoRet

NoInput == [host |-> HostC, reaches |-> FALSE,
            outs |-> [k \in 1..NumConfigPaths |-> "ok"]]

AggIdle ==
  /\ rres = << >> /\ buckets = << >> /\ rec = << >>
  /\ validation = << >> /\ cstatus = << >>

ReportIdle ==
  /\ rpc = "idle" /\ rin = NoInput /\ rstat = NoStatus /\ issues = << >>
  /\ AggIdle

\* The state after ClusterGPUAnalyzer(...) and get_cluster_nodes(): a node
\* list, the arguments, and a cluster that may hold the first node's pod,
\* left by an earlier run (--no-cleanup, or a sweep that failed).
Init ==
  /\ discoveryFailed \in BOOLEAN
  /\ \E listing \in NodeLists : nodes = GetClusterNodes(listing, discoveryFailed)
  /\ cleanup \in BOOLEAN
  /\ max_workers \in 1..MaxWorkers
  /\ pods \in [PodNames -> { "absent", "Pending" }]
  /\ \A p \in PodNames : pods[p] # "absent" => Len(nodes) > 0 /\ p = PodName(nodes[1])
  /\ apc = "start"
  /\ exc = FALSE
  /\ interrupts = 0
  /\ wpc = [i \in Idx |-> "unsubmitted"]
  /\ wcfg = [i \in Idx |-> <<>>]
  /\ wres = [i \in Idx |-> [raised |-> FALSE, value |-> NoStatus]]
  /\ results = <<>>
  /\ collected = {}
  /\ sweepIdx = 1
  /\ writes = [n \in AllNodes |-> 0]
  /\ deletes = [p \in PodNames |-> 0]
  /\ lastDelete = [p \in PodNames |-> NoDelete]
  /\ sweepCut = FALSE
  /\ creates = [i \in Idx |-> 0]
  /\ found = [i \in Idx |-> FALSE]
  /\ ownFail = [i \in Idx |-> FALSE]
  /\ DeployIdle
  /\ ReportIdle

\* ------------------------------------------------- analyze_single_node

Busy == { i \in Idx : wpc[i] \in { "lookup", "create", "poll", "cfg", "probe", "hung" } }
Queued == { i \in Idx : wpc[i] = "queued" }
Unsubmitted == { i \in Idx : wpc[i] = "unsubmitted" }

\* the future of node i resolves with a returned NodeGPUStatus
Return(i, status, failed) ==
  /\ wpc' = [wpc EXCEPT ![i] = "done"]
  /\ wres' = [wres EXCEPT ![i] = [raised |-> FALSE, value |-> status]]
  /\ ownFail' = [ownFail EXCEPT ![i] = failed]

\* (mutant) the failure outcome claims a deployed pod and carries the records
\* of an earlier discovery
ProvisionFailed_KeepsData(i, err) ==
  Return(i, NodeGPUStatus(nodes[i], wcfg[i], None, TRUE, err), TRUE)

\* if not success: return NodeGPUStatus(..., execution_error=pod_name_or_error)
ProvisionFailed(i, err) ==
  Return(i, NodeGPUStatus(nodes[i], <<>>, None, FALSE, err), TRUE)

\* (mutant) a thread per work item, whatever max_workers is
WStart_NoLimit(i) ==
  /\ wpc[i] = "queued"
  /\ \A j \in Queued : i <= j
  /\ wpc' = [wpc EXCEPT ![i] = "lookup"]
  /\ UNCHANGED << inputs, pods, mainVars, wcfg, wres, creates, found, ownFail, deployVars, reportVars >>

\* (mutant) a pool thread runs one work item and takes no other
WStart_NoReuse(i) ==
  /\ wpc[i] = "queued"
  /\ \A j \in Queued : i <= j
  /\ Cardinality({ j \in Idx : wpc[j] \notin { "unsubmitted", "queued" } }) < max_workers
  /\ wpc' = [wpc EXCEPT ![i] = "lookup"]
  /\ UNCHANGED << inputs, pods, mainVars, wcfg, wres, creates, found, ownFail, deployVars, reportVars >>

\* A pool thread takes the oldest queued work item.
WStart(i) ==
  /\ wpc[i] = "queued"
  /\ \A j \in Queued : i <= j
  /\ Cardinality(Busy) < max_workers
  /\ wpc' = [wpc EXCEPT ![i] = "lookup"]
  /\ UNCHANGED << inputs, pods, mainVars, wcfg, wres, creates, found, ownFail, deployVars, reportVars >>

\* analyze_single_node raises before it has a result (the print of line 969
\* on a closed or non-UTF-8 stdout): the future holds the exception.
WCrash(i) ==
  /\ wpc[i] = "lookup"
  /\ wpc' = [wpc EXCEPT ![i] = "done"]
  /\ wres' = [wres EXCEPT ![i] = [raised |-> TRUE, value |-> NoStatus]]
  /\ ownFail' = [ownFail EXCEPT ![i] = TRUE]
  /\ UNCHANGED << inputs, pods, mainVars, wcfg, creates, found, deployVars, reportVars >>

\* (mutant) the lookup's returncode is not acted on
WLookup_NoEarlyReturn(i) ==
  /\ wpc[i] = "lookup"
  /\ \E served \in BOOLEAN :
       /\ wpc' = [wpc EXCEPT ![i] = "create"]
       /\ found' = [found EXCEPT ![i] = served /\ pods[Pod(i)] # "absent"]
  /\ UNCHANGED << inputs, pods, mainVars, wcfg, wres, creates, ownFail, deployVars, reportVars >>

\* deploy_debug_pod, `kubectl get pod`: returncode 0 returns (True, pod_name)
\* at once; anything else goes on to create the pod.
WLookup(i) ==
  /\ wpc[i] = "lookup"
  /\ \E served \in BOOLEAN :
       LET rc0 == served /\ pods[Pod(i)] # "absent"
       IN  /\ wpc' = [wpc EXCEPT ![i] = IF rc0 THEN "cfg" ELSE "create"]
           /\ found' = [found EXCEPT ![i] = rc0]
  /\ UNCHANGED << inputs, pods, mainVars, wcfg, wres, creates, ownFail, deployVars, reportVars >>

\* deploy_debug_pod, `kubectl apply -f pod_file`: a nonzero returncode is a
\* provisioning failure.  apply creates the pod only if the name is free.
WCreate(i) ==
  /\ wpc[i] = "create"
  /\ creates' = [creates EXCEPT ![i] = @ + 1]
  /\ \E accepted \in BOOLEAN :
       IF accepted
         THEN /\ pods' = [pods EXCEPT ![Pod(i)] = IF @ = "absent" THEN "Pending" ELSE @]
              /\ wpc' = [wpc EXCEPT ![i] = "poll"]
              /\ UNCHANGED << wres, ownFail >>
         ELSE /\ ProvisionFailed(i, Err("Failed to create pod", ""))
              /\ UNCHANGED pods
  /\ UNCHANGED << inputs, mainVars, wcfg, found, deployVars, reportVars >>

\* deploy_debug_pod, the whole readiness loop: it returns (True, pod_name) in
\* an iteration that sees the pod Running and ready, and otherwise, after
\* PollLimit iterations, describes the pod and returns the timeout error.
WPoll(i) ==
  /\ wpc[i] = "poll"
  /\ \/ /\ pods[Pod(i)] = "Ready"
        /\ wpc' = [wpc EXCEPT ![i] = "cfg"]
        /\ UNCHANGED << wres, ownFail >>
     \/ ProvisionFailed(i, Err("Pod failed to start within timeout",
                               Describe(pods[Pod(i)])))
  /\ UNCHANGED << inputs, pods, mainVars, wcfg, creates, found, deployVars, reportVars >>

\* deploy_debug_pod, except Exception: a kubectl call could not be run.
WDeployException(i) ==
  /\ wpc[i] \in { "lookup", "create", "poll" }
  /\ ProvisionFailed(i, Err("Exception deploying pod", ""))
  /\ UNCHANGED << inputs, pods, mainVars, wcfg, creates, found, deployVars, reportVars >>

\* A subprocess.run without timeout= whose kubectl never returns: the calls
\* of deploy_debug_pod and the `test -f` / `cat` of config discovery.
WHang(i) ==
  /\ wpc[i] \in { "lookup", "create", "poll", "cfg" }
  /\ wpc' = [wpc EXCEPT ![i] = "hung"]
  /\ UNCHANGED << inputs, pods, mainVars, wcfg, wres, creates, found, ownFail, deployVars, reportVars >>

\* get_containerd_config_from_node(node.name, pod_name)
WConfig(i) ==
  /\ wpc[i] = "cfg"
  /\ \E out \in ExecOutcomes :
       wcfg' = [wcfg EXCEPT ![i] =
                  GetContainerdConfigFromNode(nodes[i], HostOf(nodes[i]),
                    ExecReaches(pods[Pod(i)]), [k \in 1..NumConfigPaths |-> out])]
  /\ wpc' = [wpc EXCEPT ![i] = "probe"]
  /\ UNCHANGED << inputs, pods, mainVars, wres, creates, found, ownFail, deployVars, reportVars >>

\* (mutant) the status is returned without the records fetched
WProbe_DropsRecords(i) ==
  /\ wpc[i] = "probe"
  /\ \E symptoms \in { "stdout+stderr", "GPU detection timed out" } :
       Return(i, NodeGPUStatus(nodes[i], << >>, symptoms, TRUE, ErrNone), FALSE)
  /\ UNCHANGED << inputs, pods, mainVars, wcfg, creates, found, deployVars, reportVars >>

\* run_gpu_detection_on_node(node.name, pod_name) and the return of the
\* assembled NodeGPUStatus.
WProbe(i) ==
  /\ wpc[i] = "probe"
  /\ \E symptoms \in { "stdout+stderr", "GPU detection timed out" } :
       Return(i, NodeGPUStatus(nodes[i], wcfg[i], symptoms, TRUE, ErrNone), FALSE)
  /\ UNCHANGED << inputs, pods, mainVars, wcfg, creates, found, deployVars, reportVars >>

\* (mutant) no except clause: the exception leaves analyze_single_node
WAnalysisFailed_Propagates(i) ==
  /\ wpc[i] \in { "cfg", "probe" }
  /\ wpc' = [wpc EXCEPT ![i] = "done"]
  /\ wres' = [wres EXCEPT ![i] = [raised |-> TRUE, value |-> NoStatus]]
  /\ ownFail' = [ownFail EXCEPT ![i] = TRUE]
  /\ UNCHANGED << inputs, pods, mainVars, wcfg, creates, found, deployVars, reportVars >>

\* analyze_single_node, except Exception: something inside the try raised.
WAnalysisFailed(i) ==
  /\ wpc[i] \in { "cfg", "probe" }
  /\ Return(i, NodeGPUStatus(nodes[i], <<>>, None, TRUE, Err("Analysis failed", "")), TRUE)
  /\ UNCHANGED << inputs, pods, mainVars, wcfg, creates, found, deployVars, reportVars >>

Worker(i) ==
  \/ WStart(i) \/ WCrash(i) \/ WLookup(i) \/ WCreate(i) \/ WPoll(i)
  \/ WDeployException(i) \/ WConfig(i) \/ WProbe(i) \/ WAnalysisFailed(i)

\* ------------------------------------------------------ analyze_cluster

\* (mutant) no early return for an empty node list
AnalyzeStart_NoEmptyCheck ==
  /\ apc = "start"
  /\ apc' = "submit"
  /\ UNCHANGED << inputs, pods, exc, interrupts, results, collected, sweepIdx,
                  writes, deletes, lastDelete, sweepCut, workerVars, deployVars, reportVars >>

\* if not nodes: return {}
AnalyzeStart ==
  /\ apc = "start"
  /\ apc' = IF Len(nodes) = 0 THEN "returned" ELSE "submit"
  /\ UNCHANGED << inputs, pods, exc, interrupts, results, collected, sweepIdx,
                  writes, deletes, lastDelete, sweepCut, workerVars, deployVars, reportVars >>

\* executor.submit(self.analyze_single_node, node) for node in nodes
Submit ==
  /\ apc = "submit"
  /\ \E i \in Unsubmitted :
       /\ \A j \in Unsubmitted : i <= j
       /\ wpc' = [wpc EXCEPT ![i] = "queued"]
       /\ apc' = IF Unsubmitted = { i } THEN "collect" ELSE "submit"
  /\ UNCHANGED << inputs, pods, exc, interrupts, results, collected, sweepIdx,
                  writes, deletes, lastDelete, sweepCut, wcfg, wres, creates,
                  found, ownFail, deployVars, reportVars >>

\* (mutant) one future's exception spoils what is stored for the others
Collected_Poisoned(i) ==
  IF \E j \in Idx : wres[j].raised \/ wres[j].value.execution_error # ErrNone
    THEN NodeGPUStatus(nodes[i], <<>>, None, FALSE, Err("Analysis exception", ""))
    ELSE wres[i].value

\* What the body of `for future in as_completed(...)` stores for a future.
Collected(i) ==
  IF wres[i].raised
    THEN NodeGPUStatus(nodes[i], <<>>, None, FALSE, Err("Analysis exception", ""))
    ELSE wres[i].value

\* (mutant) the except branch of the collection loop stores nothing
Collect_DropRaised(i) ==
  /\ apc = "collect"
  /\ wpc[i] = "done"
  /\ i \notin collected
  /\ results' = IF wres[i].raised THEN results ELSE (nodes[i] :> Collected(i)) @@ results
  /\ writes' = [writes EXCEPT ![nodes[i]] = IF wres[i].raised THEN @ ELSE @ + 1]
  /\ collected' = collected \cup { i }
  /\ UNCHANGED << inputs, pods, apc, exc, interrupts, sweepIdx, deletes,
                  lastDelete, sweepCut, workerVars, deployVars, reportVars >>

\* One iteration of the collection loop: as_completed yields a finished
\* future, future.result(timeout=120) returns or raises at once.
Collect(i) ==
  /\ apc = "collect"
  /\ wpc[i] = "done"
  /\ i \notin collected
  /\ results' = (nodes[i] :> Collected(i)) @@ results
  /\ writes' = [writes EXCEPT ![nodes[i]] = @ + 1]
  /\ collected' = collected \cup { i }
  /\ UNCHANGED << inputs, pods, apc, exc, interrupts, sweepIdx, deletes,
                  lastDelete, sweepCut, workerVars, deployVars, reportVars >>

\* as_completed is exhausted: the with block is left.
ExitPool ==
  /\ apc = "collect"
  /\ collected = Idx
  /\ apc' = "shutdown"
  /\ UNCHANGED << inputs, pods, exc, interrupts, results, collected, sweepIdx,
                  writes, deletes, lastDelete, sweepCut, workerVars, deployVars, reportVars >>

\* Where control goes once the with block is over: the finally clause runs
\* the sweep if cleanup is set, then the function returns or re-raises.
AfterPoolNoFinally(pending) ==
  IF pending THEN "raised" ELSE IF cleanup THEN "sweep" ELSE "returned"
AfterPool_AlwaysSweeps(pending) == "sweep"
AfterPool(pending) ==
  IF cleanup THEN "sweep" ELSE IF pending THEN "raised" ELSE "returned"

\* ThreadPoolExecutor.__exit__: shutdown(wait=True) joins the pool threads,
\* which first run every work item still queued.
PoolJoined ==
  /\ apc = "shutdown"
  /\ Busy = {} /\ Queued = {}
  /\ apc' = AfterPool(exc)
  /\ UNCHANGED << inputs, pods, exc, interrupts, results, collected, sweepIdx,
                  writes, deletes, lastDelete, sweepCut, workerVars, deployVars, reportVars >>

\* KeyboardInterrupt in the main thread while it submits, collects or joins.
\* Inside the with block it starts the shutdown; during the join it ends the
\* join and control reaches the finally clause.
Interrupt ==
  /\ apc \in { "submit", "collect", "shutdown" }
  /\ interrupts < MaxInterrupts
  /\ interrupts' = interrupts + 1
  /\ exc' = TRUE
  /\ apc' = IF apc = "shutdown" THEN AfterPool(TRUE) ELSE "shutdown"
  /\ UNCHANGED << inputs, pods, results, collected, sweepIdx, writes, deletes,
                  lastDelete, sweepCut, workerVars, deployVars, reportVars >>

\* (mutant) the sweep deletes the first node's pod only
Sweep_FirstOnly ==
  /\ apc = "sweep"
  /\ sweepIdx <= Len(nodes)
  /\ \E served \in BOOLEAN :
       LET existed == pods[Pod(sweepIdx)] # "absent"
       IN  /\ pods' = [pods EXCEPT ![Pod(sweepIdx)] = IF served THEN "absent" ELSE @]
           /\ lastDelete' = [lastDelete EXCEPT ![Pod(sweepIdx)] =
                 [existed |-> existed, served |-> served,
                  rc |-> DeleteRC(existed, served)]]
  /\ deletes' = [deletes EXCEPT ![Pod(sweepIdx)] = @ + 1]
  /\ sweepIdx' = sweepIdx + 1
  /\ apc' = IF exc THEN "raised" ELSE "returned"
  /\ UNCHANGED << inputs, exc, interrupts, results, collected, writes,
                  sweepCut, workerVars, deployVars, reportVars >>

\* (mutant) a delete that fails or times out ends the sweep with an exception
Sweep_Escalates ==
  /\ apc = "sweep"
  /\ sweepIdx <= Len(nodes)
  /\ \E served \in BOOLEAN :
       LET existed == pods[Pod(sweepIdx)] # "absent"
       IN  /\ pods' = [pods EXCEPT ![Pod(sweepIdx)] = IF served THEN "absent" ELSE @]
           /\ lastDelete' = [lastDelete EXCEPT ![Pod(sweepIdx)] =
                 [existed |-> existed, served |-> served,
                  rc |-> DeleteRC(existed, served)]]
           /\ exc' = (exc \/ ~served)
           /\ apc' = IF ~served THEN "raised"
                     ELSE IF sweepIdx = Len(nodes)
                       THEN (IF exc THEN "raised" ELSE "returned")
                     ELSE "sweep"
  /\ deletes' = [deletes EXCEPT ![Pod(sweepIdx)] = @ + 1]
  /\ sweepIdx' = sweepIdx + 1
  /\ UNCHANGED << inputs, interrupts, results, collected, writes,
                  sweepCut, workerVars, deployVars, reportVars >>

\* cleanup_debug_pods, one iteration: kubectl delete pod <name>
\* --ignore-not-found=true with timeout=30; a timeout or any other exception
\* is swallowed and the returncode is not looked at.
Sweep ==
  /\ apc = "sweep"
  /\ sweepIdx <= Len(nodes)
  /\ \E served \in BOOLEAN :
       LET existed == pods[Pod(sweepIdx)] # "absent"
       IN  /\ pods' = [pods EXCEPT ![Pod(sweepIdx)] = IF served THEN "absent" ELSE @]
           /\ lastDelete' = [lastDelete EXCEPT ![Pod(sweepIdx)] =
                 [existed |-> existed, served |-> served,
                  rc |-> DeleteRC(existed, served)]]
  /\ deletes' = [deletes EXCEPT ![Pod(sweepIdx)] = @ + 1]
  /\ sweepIdx' = sweepIdx + 1
  /\ apc' = IF sweepIdx = Len(nodes)
              THEN (IF exc THEN "raised" ELSE "returned")
              ELSE "sweep"
  /\ UNCHANGED << inputs, exc, interrupts, results, collected, writes,
                  sweepCut, workerVars, deployVars, reportVars >>

\* KeyboardInterrupt inside cleanup_debug_pods but outside its try: the sweep
\* is abandoned.
SweepInterrupted ==
  /\ apc = "sweep"
  /\ interrupts < MaxInterrupts
  /\ interrupts' = interrupts + 1
  /\ exc' = TRUE
  /\ apc' = "raised"
  /\ sweepCut' = TRUE
  /\ UNCHANGED << inputs, pods, results, collected, sweepIdx, writes, deletes,
                  lastDelete, workerVars, deployVars, reportVars >>

\* ------------------------------------------------------------ the cluster

\* The kubelet moves a pod along: scheduled and started, container ready,
\* /bin/sleep 300 over (restartPolicy Never), or failed to start.
PodAdvance(p) ==
  /\ pods[p] \in { "Pending", "Running", "Ready" }
  /\ \E st \in PodStates :
       /\ \/ pods[p] = "Pending" /\ st \in { "Running", "Failed" }
          \/ pods[p] = "Running" /\ st = "Ready"
          \/ pods[p] = "Ready" /\ st = "Succeeded"
       /\ pods' = [pods EXCEPT ![p] = st]

ClusterStep ==
  /\ \E p \in PodNames : PodAdvance(p)
  /\ UNCHANGED << clusterVars, deployVars, reportVars >>

\* ------------------------------------------------------------------- Spec

MainStep ==
  \/ AnalyzeStart \/ Submit \/ (\E i \in Idx : Collect(i)) \/ ExitPool
  \/ PoolJoined \/ Sweep

WorkerStep == \E i \in Idx : Worker(i)

Environment ==
  \/ Interrupt \/ SweepInterrupted \/ ClusterStep \/ (\E i \in Idx : WHang(i))

Next == MainStep \/ WorkerStep \/ Environment

\* analyze_cluster with KeyboardInterrupts
Spec == Init /\ [][Next]_vars

\* analyze_cluster left alone by the user
NextRun == MainStep \/ WorkerStep \/ ClusterStep \/ (\E i \in Idx : WHang(i))

SpecRun == Init /\ [][NextRun]_vars

\* analyze_cluster when every kubectl call returns: no interrupt, no call
\* that blocks for ever; the main thread and the pool threads are scheduled
\* as long as one of them can take a step.
NextLive == MainStep \/ WorkerStep \/ ClusterStep

SpecLive == Init /\ [][NextLive]_vars /\ WF_vars(MainStep \/ WorkerStep)

\* ------------------------------------- deploy_debug_pod, call by call

\* SpecDeploy follows one call deploy_debug_pod(nodes[1]).  dobs records what
\* the call has seen: the number of phase queries, the stdout of the latest
\* phase query, of the ready query of the same iteration ("-" if there was
\* none) and of kubectl describe, whether kubectl apply succeeded, and
\* whether a kubectl call raised, and the manifest given to kubectl apply.

InitDeploy ==
  /\ discoveryFailed = FALSE
  /\ ReportIdle
  /\ nodes \in { <<n>> : n \in AllNodes }
  /\ cleanup = TRUE
  /\ max_workers = 1
  /\ pods \in [PodNames -> { "absent", "Pending" }]
  /\ \A p \in PodNames : pods[p] # "absent" => p = PodName(nodes[1])
  /\ apc = "start"
  /\ exc = FALSE
  /\ interrupts = 0
  /\ wpc = [i \in Idx |-> "unsubmitted"]
  /\ wcfg = [i \in Idx |-> <<>>]
  /\ wres = [i \in Idx |-> [raised |-> FALSE, value |-> NoStatus]]
  /\ results = <<>>
  /\ collected = {}
  /\ sweepIdx = 1
  /\ writes = [n \in AllNodes |-> 0]
  /\ deletes = [p \in PodNames |-> 0]
  /\ lastDelete = [p \in PodNames |-> NoDelete]
  /\ sweepCut = FALSE
  /\ creates = [i \in Idx |-> 0]
  /\ found = [i \in Idx |-> FALSE]
  /\ ownFail = [i \in Idx |-> FALSE]
  /\ dpc = "lookup"
  /\ attempt = 0
  /\ dobs = NoObs
  /\ dret = NoRet

\* return True, pod_name
DeploySucceeds ==
  /\ dpc' = "returned"
  /\ dret' = [returned |-> TRUE, success |-> TRUE, pod_name |-> Pod(1),
              error |-> ErrNone]

\* return False, <message>
DeployFails(err) ==
  /\ dpc' = "returned"
  /\ dret' = [returned |-> TRUE, success |-> FALSE, pod_name |-> <<>>,
              error |-> err]

\* kubectl get pod <name>; if result.returncode == 0: return True, pod_name
DLookup ==
  /\ dpc = "lookup"
  /\ \E served \in BOOLEAN :
       IF served /\ pods[Pod(1)] # "absent"
         THEN DeploySucceeds
         ELSE dpc' = "apply" /\ UNCHANGED dret
  /\ UNCHANGED << clusterVars, reportVars, pods, attempt, dobs >>

\* kubectl apply -f pod_file; if result.returncode != 0: return False, ...
DApply ==
  /\ dpc = "apply"
  /\ \E accepted \in BOOLEAN :
       IF accepted
         THEN /\ pods' = [pods EXCEPT ![CreateDebugPodSpec(nodes[1]).metadata.name] =
                                  IF @ = "absent" THEN "Pending" ELSE @]
              /\ dobs' = [dobs EXCEPT !.created = TRUE,
                                      !.applied = CreateDebugPodSpec(nodes[1])]
              /\ dpc' = "phase"
              /\ UNCHANGED dret
         ELSE /\ DeployFails(Err("Failed to create pod", ""))
              /\ dobs' = [dobs EXCEPT !.applied = CreateDebugPodSpec(nodes[1])]
              /\ UNCHANGED pods
  /\ attempt' = 0
  /\ UNCHANGED << clusterVars, reportVars >>

\* (mutant) a pod in phase Running is taken to be ready
DPollPhase_RunningIsEnough ==
  /\ dpc = "phase"
  /\ \E served \in BOOLEAN :
       LET stdout == IF served THEN PhaseOf(pods[Pod(1)]) ELSE ""
       IN  /\ dobs' = [dobs EXCEPT !.polls = @ + 1, !.phase = stdout, !.ready = "-"]
           /\ IF stdout = "Running"
                THEN DeploySucceeds
                ELSE dpc' = "sleep" /\ UNCHANGED dret
  /\ UNCHANGED << clusterVars, reportVars, pods, attempt >>

\* for attempt in range(60): kubectl get pod -o jsonpath={.status.phase};
\* if result.stdout == 'Running': ...
DPollPhase ==
  /\ dpc = "phase"
  /\ \E served \in BOOLEAN :
       LET stdout == IF served THEN PhaseOf(pods[Pod(1)]) ELSE ""
       IN  /\ dobs' = [dobs EXCEPT !.polls = @ + 1, !.phase = stdout, !.ready = "-"]
           /\ dpc' = IF stdout = "Running" THEN "ready" ELSE "sleep"
  /\ UNCHANGED << clusterVars, reportVars, pods, attempt, dret >>

\* kubectl get pod -o jsonpath={.status.containerStatuses[0].ready};
\* if result.stdout == 'true': return True, pod_name
DPollReady ==
  /\ dpc = "ready"
  /\ \E served \in BOOLEAN :
       LET stdout == IF served THEN ReadyOf(pods[Pod(1)]) ELSE ""
       IN  /\ dobs' = [dobs EXCEPT !.ready = stdout]
           /\ IF stdout = "true"
                THEN DeploySucceeds
                ELSE dpc' = "sleep" /\ UNCHANGED dret
  /\ UNCHANGED << clusterVars, reportVars, pods, attempt >>

\* (mutant) the loop gives up one iteration early
DSleep_OneShort ==
  /\ dpc = "sleep"
  /\ attempt' = attempt + 1
  /\ dpc' = IF attempt + 1 < PollLimit - 1 THEN "phase" ELSE "describe"
  /\ UNCHANGED << clusterVars, reportVars, pods, dobs, dret >>

\* time.sleep(1) and the next value of range(60)
DSleep ==
  /\ dpc = "sleep"
  /\ attempt' = attempt + 1
  /\ dpc' = IF attempt + 1 < PollLimit THEN "phase" ELSE "describe"
  /\ UNCHANGED << clusterVars, reportVars, pods, dobs, dret >>

\* kubectl describe pod; return False, f"Pod failed to start within
\* timeout. Details: {result.stdout[-500:]}"
DDescribe ==
  /\ dpc = "describe"
  /\ \E served \in BOOLEAN :
       LET stdout == IF served THEN Describe(pods[Pod(1)]) ELSE ""
       IN  /\ dobs' = [dobs EXCEPT !.desc = stdout]
           /\ DeployFails(Err("Pod failed to start within timeout", stdout))
  /\ UNCHANGED << clusterVars, reportVars, pods, attempt >>

DeployCalls == { "lookup", "apply", "phase", "ready", "describe" }

\* except Exception as e: return False, f"Exception deploying pod: {e}"
DException ==
  /\ dpc \in DeployCalls
  /\ dobs' = [dobs EXCEPT !.raised = TRUE]
  /\ DeployFails(Err("Exception deploying pod", ""))
  /\ UNCHANGED << clusterVars, reportVars, pods, attempt >>

\* a subprocess.run without timeout= whose kubectl never returns
DHang ==
  /\ dpc \in DeployCalls
  /\ dpc' = "hung"
  /\ UNCHANGED << clusterVars, reportVars, pods, attempt, dobs, dret >>

DeployStep ==
  \/ DLookup \/ DApply \/ DPollPhase \/ DPollReady \/ DSleep \/ DDescribe
  \/ DException

NextDeploy == DeployStep \/ DHang \/ ClusterStep

SpecDeploy == InitDeploy /\ [][NextDeploy]_vars

\* ------------------------------ config discovery and the issue list

\* What a candidate config file can hold: nothing, a config with both
\* markers and a BinaryName line, one with both markers and no BinaryName
\* line, one with one marker only, without and with a BinaryName line, an
\* empty file.
FileKinds ==
  { Missing, Text(TRUE, TRUE, RuntimeBin), Text(TRUE, TRUE, ""),
    Text(TRUE, FALSE, ""), Text(TRUE, FALSE, RuntimeBin), EmptyText }

\* Hosts with any file kind at the first two candidate paths.
ReportHosts ==
  { [ files |-> [k \in 1..NumConfigPaths |->
                   IF k = 1 THEN f1 ELSE IF k = 2 THEN f2 ELSE Missing],
      binary |-> b ] : f1 \in FileKinds, f2 \in FileKinds, b \in BOOLEAN }

\* How the kubectl exec calls of one candidate path end: both return 0 where
\* the file allows it, `test -f` exits nonzero, `cat` exits nonzero,
\* subprocess.run raises, or the `test -f` of the declared binary fails or
\* times out.
PathOutcomes == { "ok", "test_fail", "cat_fail", "raise", "bin_fail" }

ReportInputs ==
  { [ host |-> h, reaches |-> r,
      outs |-> [k \in 1..NumConfigPaths |->
                  IF k = 1 THEN o1 ELSE IF k = 2 THEN o2 ELSE o3] ] :
      h \in ReportHosts, r \in BOOLEAN,
      o1 \in PathOutcomes, o2 \in PathOutcomes, o3 \in PathOutcomes }

InitReport ==
  /\ discoveryFailed = FALSE
  /\ nodes = << N1 >>
  /\ cleanup = TRUE
  /\ max_workers = 1
  /\ pods = [p \in PodNames |-> "absent"]
  /\ apc = "start"
  /\ exc = FALSE
  /\ interrupts = 0
  /\ wpc = [i \in Idx |-> "unsubmitted"]
  /\ wcfg = [i \in Idx |-> <<>>]
  /\ wres = [i \in Idx |-> [raised |-> FALSE, value |-> NoStatus]]
  /\ results = <<>>
  /\ collected = {}
  /\ sweepIdx = 1
  /\ writes = [n \in AllNodes |-> 0]
  /\ deletes = [p \in PodNames |-> 0]
  /\ lastDelete = [p \in PodNames |-> NoDelete]
  /\ sweepCut = FALSE
  /\ creates = [i \in Idx |-> 0]
  /\ found = [i \in Idx |-> FALSE]
  /\ ownFail = [i \in Idx |-> FALSE]
  /\ DeployIdle
  /\ rpc = "discover"
  /\ rin \in ReportInputs
  /\ rstat = NoStatus
  /\ issues = << >>
  /\ AggIdle

\* analyze_single_node after a successful deploy_debug_pod: config discovery,
\* the probe, and the NodeGPUStatus returned.
RAnalyze ==
  /\ rpc = "discover"
  /\ rstat' = NodeGPUStatus(nodes[1],
                GetContainerdConfigFromNode(nodes[1], rin.host, rin.reaches, rin.outs),
                "stdout+stderr", TRUE, ErrNone)
  /\ rpc' = "report"
  /\ UNCHANGED << clusterVars, pods, deployVars, aggVars, rin, issues >>

\* analyze_single_node when deploy_debug_pod returned failure
RProvisionFailed ==
  /\ rpc = "discover"
  /\ rstat' = NodeGPUStatus(nodes[1], <<>>, None, FALSE,
                            Err("Failed to create pod", ""))
  /\ rpc' = "report"
  /\ UNCHANGED << clusterVars, pods, deployVars, aggVars, rin, issues >>

\* runtime_config_issues = self.get_runtime_config_issues(results)
RIssues ==
  /\ rpc = "report"
  /\ issues' = GetRuntimeConfigIssues(<< rstat >>)
  /\ rpc' = "done"
  /\ UNCHANGED << clusterVars, pods, deployVars, aggVars, rin, rstat >>

NextReport == RAnalyze \/ RProvisionFailed \/ RIssues

SpecReport == InitReport /\ [][NextReport]_vars

\* ------------------------------------------ the report over several nodes

\* A host with the runtime configured at two candidate paths and no binary.
HostB2 ==
  [ files |-> [k \in 1..NumConfigPaths |->
                 IF k \in { 1, 2 } THEN Text(TRUE, TRUE, RuntimeBin) ELSE Missing],
    binary |-> FALSE ]

\* What analyze_single_node returns for node n on a given host when every
\* call answers.
Analyzed(n, host) ==
  NodeGPUStatus(n, GetContainerdConfigFromNode(n, host, TRUE,
                     [k \in 1..NumConfigPaths |-> "ok"]),
                "stdout+stderr", TRUE, ErrNone)

\* The outcomes considered for node n.
StatusOptions(n) ==
  { Analyzed(n, HostOf(n)),
    NodeGPUStatus(n, <<>>, None, FALSE, Err("Failed to create pod", "")),
    NodeGPUStatus(n, <<>>, None, TRUE, Err("Analysis failed", "")) }
  \cup (IF n = N2 THEN { Analyzed(n, HostB2) } ELSE { })

\* The orders in which as_completed can hand over the nodes' futures.
CompletionOrders ==
  { o \in UNION { [1..k -> AllNodes] : k \in 0..Cardinality(AllNodes) } :
      \A i, j \in DOMAIN o : i # j => o[i] # o[j] }

ResultLists ==
  UNION { { [k \in DOMAIN o |-> f[o[k]]] :
              f \in { g \in [AllNodes -> UNION { StatusOptions(n) : n \in AllNodes }] :
                        \A n \in AllNodes : g[n] \in StatusOptions(n) } } :
          o \in CompletionOrders }

InitAggregate ==
  /\ discoveryFailed = FALSE
  /\ nodes = << N1 >>
  /\ cleanup = TRUE
  /\ max_workers = 1
  /\ pods = [p \in PodNames |-> "absent"]
  /\ apc = "start"
  /\ exc = FALSE
  /\ interrupts = 0
  /\ wpc = [i \in Idx |-> "unsubmitted"]
  /\ wcfg = [i \in Idx |-> <<>>]
  /\ wres = [i \in Idx |-> [raised |-> FALSE, value |-> NoStatus]]
  /\ results = <<>>
  /\ collected = {}
  /\ sweepIdx = 1
  /\ writes = [n \in AllNodes |-> 0]
  /\ deletes = [p \in PodNames |-> 0]
  /\ lastDelete = [p \in PodNames |-> NoDelete]
  /\ sweepCut = FALSE
  /\ creates = [i \in Idx |-> 0]
  /\ found = [i \in Idx |-> FALSE]
  /\ ownFail = [i \in Idx |-> FALSE]
  /\ DeployIdle
  /\ rpc = "issues"
  /\ rin = NoInput
  /\ rstat = NoStatus
  /\ issues = << >>
  /\ rres \in ResultLists
  /\ buckets = << >> /\ rec = << >> /\ validation = << >> /\ cstatus = << >>

\* print_cluster_report: runtime_config_issues =
\* self.get_runtime_config_issues(results)
AIssues ==
  /\ rpc = "issues"
  /\ issues' = GetRuntimeConfigIssues(rres)
  /\ rpc' = "summary"
  /\ UNCHANGED << clusterVars, pods, deployVars, rin, rstat, rres, buckets,
                  rec, validation, cstatus >>

\* print_cluster_report: the summary counters, then the recommendation lists
ARecommend ==
  /\ rpc = "summary"
  /\ buckets' = [summary |-> Summary(rres), lists |-> Recommendations(rres)]
  /\ rpc' = "done"
  /\ UNCHANGED << clusterVars, pods, deployVars, rin, rstat, rres, issues,
                  rec, validation, cstatus >>

NextAggregate == AIssues \/ ARecommend

SpecAggregate == InitAggregate /\ [][NextAggregate]_vars

\* ----------------------------------- config inspection, character by character

\* SpecInspect follows lines 672-691 of get_containerd_config_from_node and
\* _extract_and_verify_binary on the text that `cat` returned for one
\* candidate path.  Texts are character sequences, so that lower(), `in`,
\* split() and strip() are computed.

\* largest number of lines of a config text
MaxLines == 3

UpperCase == << "A", "B", "C", "D", "E", "F", "G", "H", "I", "J", "K", "L", "M",
     "N", "O", "P", "Q", "R", "S", "T", "U", "V", "W", "X", "Y", "Z" >>
LowerCase == << "a", "b", "c", "d", "e", "f", "g", "h", "i", "j", "k", "l", "m",
     "n", "o", "p", "q", "r", "s", "t", "u", "v", "w", "x", "y", "z" >>

\* str.lower() on one character
LowerChar(c) ==
  IF \E i \in 1..Len(UpperCase) : UpperCase[i] = c
    THEN LowerCase[CHOOSE i \in 1..Len(UpperCase) : UpperCase[i] = c]
    ELSE c

\* (mutant) the text is searched as it is
Lower_CaseSensitive(str) == str

\* str.lower()
Lower(str) == [i \in 1..Len(str) |-> LowerChar(str[i])]

\* sub in str
Contains(str, sub) ==
  \E i \in 1..(Len(str) - Len(sub) + 1) : SubSeq(str, i, i + Len(sub) - 1) = sub

\* the index of the first occurrence of character ch in str, 0 if none
Find(str, ch) ==
  IF \E i \in 1..Len(str) : str[i] = ch
    THEN CHOOSE i \in 1..Len(str) :
           str[i] = ch /\ \A j \in 1..(i - 1) : str[j] # ch
    ELSE 0

RECURSIVE Split(_, _)
\* str.split(ch)
Split(str, ch) ==
  IF Find(str, ch) = 0
    THEN << str >>
    ELSE << SubSeq(str, 1, Find(str, ch) - 1) >>
           \o Split(SubSeq(str, Find(str, ch) + 1, Len(str)), ch)

\* str.split(ch, 1)
SplitOnce(str, ch) ==
  IF Find(str, ch) = 0
    THEN << str >>
    ELSE << SubSeq(str, 1, Find(str, ch) - 1),
            SubSeq(str, Find(str, ch) + 1, Len(str)) >>

Whitespace == { " ", "\t", "\n", "\r" }

RECURSIVE LStrip(_, _)
LStrip(str, chars) ==
  IF Len(str) > 0 /\ str[1] \in chars THEN LStrip(Tail(str), chars) ELSE str

RECURSIVE RStrip(_, _)
RStrip(str, chars) ==
  IF Len(str) > 0 /\ str[Len(str)] \in chars
    THEN RStrip(SubSeq(str, 1, Len(str) - 1), chars)
    ELSE str

\* str.strip(chars); str.strip() with chars = Whitespace
Strip(str, chars) == RStrip(LStrip(str, chars), chars)

MarkerNvidia == << "n", "v", "i", "d", "i", "a" >>
MarkerRunc == << "r", "u", "n", "c" >>
KeyBinaryName == << "B", "i", "n", "a", "r", "y", "N", "a", "m", "e" >>

\* if 'BinaryName' in line and '=' in line
IsBinaryNameLine(line) == Contains(line, KeyBinaryName) /\ Contains(line, << "=" >>)

\* parts[1].strip().strip('"').strip("'").strip()
BinaryPathOf(line) ==
  Strip(Strip(Strip(Strip(SplitOnce(line, "=")[2], Whitespace),
                    { "\"" }), { "'" }), Whitespace)

\* _extract_and_verify_binary: binary_info after the loop over
\* config_content.split('\n'), which stops at the first BinaryName line;
\* `test -f /host<path>` succeeds for the runtime binary's path when the
\* host has it.
ExtractBinaryPath(content, hostHasBinary) ==
  LET lines == Split(content, "\n")
      hits == { i \in 1..Len(lines) : IsBinaryNameLine(lines[i]) }
  IN  IF hits = {}
        THEN [binary_name |-> << >>, binary_exists |-> FALSE]
        ELSE LET first == CHOOSE i \in hits : \A j \in hits : i <= j
                 path == BinaryPathOf(lines[first])
             IN  [binary_name |-> path,
                  binary_exists |-> (path # << >> /\ hostHasBinary)]

\* get_containerd_config_from_node, lines 672-691: the record for a
\* candidate path whose file exists and was read.
InspectFetched(n, k, content, hostHasBinary) ==
  LET content_lower == Lower(content)
      configured == /\ Contains(content_lower, MarkerNvidia)
                    /\ Contains(content_lower, MarkerRunc)
      bin == ExtractBinaryPath(content, hostHasBinary)
  IN  ContainerdConfig(n, k, TRUE, configured, content,
                       IF configured THEN bin.binary_name ELSE << >>,
                       IF configured THEN bin.binary_exists ELSE FALSE, None)

\* Lines of a config text: one marker each, both markers in mixed case,
\* BinaryName assignments with double and with single quotes and blanks
\* around them, another assignment, and the key without an assignment.
ConfigLines ==
  { << "N", "V", "I", "D", "I", "A" >>,
    << "r", "u", "n", "c" >>,
    << "n", "v", "i", "d", "i", "a", ".", "R", "u", "n", "C" >>,
    << "B", "i", "n", "a", "r", "y", "N", "a", "m", "e", " ", "=", " ", "\"", "/", "f", "o", "o", "\"" >>,
    << " ", "B", "i", "n", "a", "r", "y", "N", "a", "m", "e", "=", "'", "/", "x", "'", " " >>,
    << "x", "=", "1" >>,
    << "B", "i", "n", "a", "r", "y", "N", "a", "m", "e" >> }

RECURSIVE Join(_)
\* "\n".join(lines)
Join(lines) ==
  IF Len(lines) = 0 THEN << >>
  ELSE IF Len(lines) = 1 THEN lines[1]
  ELSE lines[1] \o << "\n" >> \o Join(Tail(lines))

\* texts of up to MaxLines lines, read from any candidate path, on a host
\* with or without the declared binary
InspectInputs ==
  [ content : { Join(ls) : ls \in UNION { [1..n -> ConfigLines] : n \in 0..MaxLines } },
    path : 1..NumConfigPaths, binary : BOOLEAN ]

\* Everything of analyze_cluster at rest
RunIdle ==
  /\ discoveryFailed = FALSE
  /\ nodes = << N1 >>
  /\ cleanup = TRUE
  /\ max_workers = 1
  /\ pods = [p \in PodNames |-> "absent"]
  /\ apc = "start"
  /\ exc = FALSE
  /\ interrupts = 0
  /\ wpc = [i \in Idx |-> "unsubmitted"]
  /\ wcfg = [i \in Idx |-> <<>>]
  /\ wres = [i \in Idx |-> [raised |-> FALSE, value |-> NoStatus]]
  /\ results = <<>>
  /\ collected = {}
  /\ sweepIdx = 1
  /\ writes = [n \in AllNodes |-> 0]
  /\ deletes = [p \in PodNames |-> 0]
  /\ lastDelete = [p \in PodNames |-> NoDelete]
  /\ sweepCut = FALSE
  /\ creates = [i \in Idx |-> 0]
  /\ found = [i \in Idx |-> FALSE]
  /\ ownFail = [i \in Idx |-> FALSE]

InitInspect ==
  /\ RunIdle
  /\ DeployIdle
  /\ rpc = "inspect"
  /\ rin \in InspectInputs
  /\ rstat = NoStatus
  /\ issues = << >>
  /\ AggIdle

\* One iteration of the loop over config_paths for a file that was read
AInspect ==
  /\ rpc = "inspect"
  /\ rec' = InspectFetched(nodes[1], rin.path, rin.content, rin.binary)
  /\ rpc' = "local"
  /\ UNCHANGED << clusterVars, pods, deployVars, rin, rstat, issues, rres,
                  buckets, validation, cstatus >>

\* ------------------------------------------------ _validate_toolkit_config

\* SpecToolkit applies _validate_toolkit_config to the toolkit section of the
\* release values.  A YAML value is one of: the expected value of its field,
\* another string, or None for a key that is not there (dict.get); enabled is
\* the boolean True or False, a non-empty string, or not there.

\* required_toolkit_config without 'enabled', in dict order
RequiredFields ==
  << "image", "imagePullPolicy", "installDir", "repository", "version" >>

\* required_toolkit_config[field]
ExpectedValue(field) ==
  CASE field = "image" -> "container-toolkit"
    [] field = "imagePullPolicy" -> "IfNotPresent"
    [] field = "installDir" -> "/usr/local/nvidia"
    [] field = "repository" -> "nvcr.io/nvidia/k8s"
    [] field = "version" -> "v1.17.5-ubuntu20.04"

\* required_env_vars
RequiredEnvVars ==
  << [name |-> "CONTAINERD_CONFIG",
      value |-> "/var/lib/k8s-containerd/k8s-containerd/etc/containerd/config.toml"],
     [name |-> "CONTAINERD_SOCKET",
      value |-> "/var/lib/k8s-containerd/k8s-containerd/run/containerd/containerd.sock"],
     [name |-> "CONTAINERD_RUNTIME_CLASS", value |-> "nvidia"] >>

\* bool(v) for the values enabled takes: True and a non-empty string are
\* truthy; False and the default of a missing key are not.
Truthy(v) == v \in { "True", "yes" }

\* the inner loop over env_vars for one required variable
EnvFound(items, required) ==
  \E i \in 1..Len(items) :
    items[i].name = required.name /\ items[i].value = required.value

\* _validate_toolkit_config: toolkit_config_valid and missing_configs
ValidateToolkitConfig(toolkit) ==
  LET enabledBad == ~Truthy(toolkit.enabled)
      badFields == SelectSeq(RequiredFields,
                             LAMBDA f : toolkit.fields[f] # ExpectedValue(f))
      badEnv == SelectSeq(RequiredEnvVars,
                          LAMBDA r : ~EnvFound(toolkit.env.items, r))
      missing ==
        (IF enabledBad THEN << [kind |-> "enabled", name |-> "enabled"] >>
                       ELSE << >>)
        \o [i \in 1..Len(badFields) |-> [kind |-> "field", name |-> badFields[i]]]
        \o (IF ~toolkit.env.list
              THEN << [kind |-> "env should be a list", name |-> "env"] >>
              ELSE [i \in 1..Len(badEnv) |->
                      [kind |-> "env missing", name |-> badEnv[i].name]])
  IN  [ toolkit_config_valid |->
          /\ ~enabledBad
          /\ badFields = << >>
          /\ toolkit.env.list /\ badEnv = << >>,
        missing_configs |-> missing ]

\* toolkit.env: not a list, or a list in which each required variable is
\* there with its value, there with another value, or not there.
EnvValues ==
  { [list |-> FALSE, items |-> << >>] } \cup
  { [list |-> TRUE,
     items |-> SelectSeq([i \in 1..Len(RequiredEnvVars) |->
                            [name |-> IF how[i] = "absent" THEN None
                                      ELSE RequiredEnvVars[i].name,
                             value |-> IF how[i] = "set"
                                         THEN RequiredEnvVars[i].value
                                         ELSE "other"]],
                         LAMBDA e : e.name # None)] :
      how \in [1..Len(RequiredEnvVars) -> { "set", "other", "absent" }] }

\* toolkit sections: enabled is True, False, a string or not set; each
\* field holds its expected value, another one, or is not set.
ToolkitConfigs ==
  { [enabled |-> e, fields |-> f, env |-> v] :
      e \in { "True", "False", "yes", None },
      f \in { g \in [ { RequiredFields[i] : i \in 1..Len(RequiredFields) } ->
                      { ExpectedValue(RequiredFields[i]) :
                          i \in 1..Len(RequiredFields) } \cup { "other", None } ] :
                \A x \in DOMAIN g : g[x] \in { ExpectedValue(x), "other", None } },
      v \in EnvValues }

InitToolkit ==
  /\ RunIdle
  /\ DeployIdle
  /\ rpc = "validate"
  /\ rin \in ToolkitConfigs
  /\ rstat = NoStatus
  /\ issues = << >>
  /\ AggIdle

\* toolkit_validation = self._validate_toolkit_config(values)
AValidate ==
  /\ rpc = "validate"
  /\ validation' = ValidateToolkitConfig(rin)
  /\ rpc' = "done"
  /\ UNCHANGED << clusterVars, pods, deployVars, rin, rstat, issues, rres,
                  buckets, rec, cstatus >>

SpecToolkit == InitToolkit /\ [][AValidate]_vars

\* ------------------------------------------- cluster-level status fetches

\* SpecStatus follows the four status fetches at the head of
\* print_cluster_report, in the order of the code.  Each fetch gets what its
\* kubectl or helm call produced: a well-formed answer, a failed command,
\* output that is not JSON (or YAML), or well-formed output of another shape
\* than the code reads (a list for an object, null for a mapping, a pod
\* without metadata.name).  A fetch that raises ends print_cluster_report.

Returned(v) == [raised |-> FALSE, value |-> v]
Raised == [raised |-> TRUE, value |-> << >>]

\* get_pending_gpu_pods
GetPendingGpuPods(out) ==
  CASE out = "kubectl_fail" -> Returned(<< >>)
    [] out = "bad_json" -> Returned(<< >>)
    [] out = "bad_shape" -> Raised
    [] out = "ok_none" -> Returned(<< >>)
    [] out = "ok_pending" ->
         Returned(<< [name |-> "gpu-job", namespace |-> "default",
                      status |-> "Pending", node |-> "Not scheduled"] >>)

\* check_nvidia_device_plugin_status
CheckNvidiaDevicePluginStatus(out) ==
  CASE out = "kubectl_fail" -> Returned([error |-> "Device plugin not found"])
    [] out = "bad_json" ->
         Returned([error |-> "Failed to parse device plugin status"])
    [] out = "bad_shape" -> Raised
    [] out = "ok" -> Returned([desired |-> "1", ready |-> "1", available |-> "1"])

\* check_nvidia_container_toolkit_status
CheckNvidiaContainerToolkitStatus(out) ==
  CASE out = "kubectl_fail" -> Returned("Error: Toolkit not found")
    [] out = "bad_json" -> Returned("Error: Failed to parse toolkit status")
    [] out = "bad_shape" -> Raised
    [] out = "ok" -> Returned("Ready: 1/1")

\* config_status of check_gpu_operator_helm_config
HelmStatus(release, valid, missing, errors) ==
  [ helm_release_found |-> release, toolkit_config_valid |-> valid,
    missing_configs |-> missing, errors |-> errors ]

\* config_status.update(self._validate_toolkit_config(values))
HelmValidated(toolkit) ==
  HelmStatus(TRUE, ValidateToolkitConfig(toolkit).toolkit_config_valid,
             ValidateToolkitConfig(toolkit).missing_configs, << >>)

\* check_gpu_operator_helm_config, by the path taken: helm is not there; the
\* HelmRelease query succeeds (release found, none, not JSON, another
\* shape); it fails and helm list is used (fails, not JSON, another shape,
\* no release); helm get values for the release found by helm list (good,
\* fails, not YAML, another shape).  The whole body is inside
\* try/except Exception.
CheckGpuOperatorHelmConfig(out, toolkit) ==
  CASE out = "no_helm" ->
         HelmStatus(FALSE, FALSE, << >>, << "Helm not available or not configured" >>)
    [] out = "flux_ok" -> HelmValidated(toolkit)
    [] out = "flux_none" ->
         HelmStatus(FALSE, FALSE, << >>, << "No GPU Operator HelmRelease found" >>)
    [] out = "flux_bad_json" ->
         HelmStatus(FALSE, FALSE, << >>, << "Failed to parse HelmRelease data" >>)
    [] out = "flux_bad_shape" ->
         HelmStatus(FALSE, FALSE, << >>, << "Unexpected error checking Helm config" >>)
    [] out = "list_fail" ->
         HelmStatus(FALSE, FALSE, << >>, << "No GPU Operator Helm release found" >>)
    [] out = "list_bad_json" ->
         HelmStatus(FALSE, FALSE, << >>, << "Failed to parse Helm list output" >>)
    [] out = "list_bad_shape" ->
         HelmStatus(FALSE, FALSE, << >>, << "Unexpected error checking Helm config" >>)
    [] out = "list_none" -> HelmStatus(FALSE, FALSE, << >>, << >>)
    [] out = "values_ok" -> HelmValidated(toolkit)
    [] out = "values_fail" ->
         HelmStatus(TRUE, FALSE, << >>, << "Failed to get Helm values" >>)
    [] out = "values_bad_yaml" ->
         HelmStatus(TRUE, FALSE, << >>, << "Failed to parse Helm values" >>)
    [] out = "values_bad_shape" ->
         HelmStatus(TRUE, FALSE, << >>, << "Unexpected error checking Helm config" >>)

\* a toolkit section that meets every requirement
GoodToolkit ==
  [ enabled |-> "True",
    fields |-> [f \in { RequiredFields[i] : i \in 1..Len(RequiredFields) } |->
                  ExpectedValue(f)],
    env |-> [list |-> TRUE, items |-> RequiredEnvVars] ]

\* What the commands of the four fetches produce, and the toolkit section
\* of the release values.
StatusInputs ==
  [ pending : { "ok_none", "ok_pending", "kubectl_fail", "bad_json", "bad_shape" },
    plugin : { "ok", "kubectl_fail", "bad_json", "bad_shape" },
    toolkit : { "ok", "kubectl_fail", "bad_json", "bad_shape" },
    helm : { "no_helm", "flux_ok", "flux_none", "flux_bad_json", "flux_bad_shape",
             "list_fail", "list_bad_json", "list_bad_shape", "list_none",
             "values_ok", "values_fail", "values_bad_yaml", "values_bad_shape" },
    values : { GoodToolkit, [GoodToolkit EXCEPT !.enabled = "False"] } ]

InitStatus ==
  /\ RunIdle
  /\ DeployIdle
  /\ rpc = "pending"
  /\ rin \in StatusInputs
  /\ rstat = NoStatus
  /\ issues = << >>
  /\ AggIdle

\* Each fetch of print_cluster_report keeps the value returned, or its
\* exception leaves print_cluster_report.

\* pending_gpu_pods = self.get_pending_gpu_pods()
SPending ==
  /\ rpc = "pending"
  /\ LET r == GetPendingGpuPods(rin.pending)
     IN  IF r.raised
           THEN rpc' = "raised" /\ cstatus' = cstatus
           ELSE rpc' = "plugin" /\ cstatus' = ("pending" :> r.value) @@ cstatus
  /\ UNCHANGED << clusterVars, pods, deployVars, rin, rstat, issues, rres,
                  buckets, rec, validation >>

\* device_plugin_status = self.check_nvidia_device_plugin_status()
SDevicePlugin ==
  /\ rpc = "plugin"
  /\ LET r == CheckNvidiaDevicePluginStatus(rin.plugin)
     IN  IF r.raised
           THEN rpc' = "raised" /\ cstatus' = cstatus
           ELSE rpc' = "toolkit" /\ cstatus' = ("plugin" :> r.value) @@ cstatus
  /\ UNCHANGED << clusterVars, pods, deployVars, rin, rstat, issues, rres,
                  buckets, rec, validation >>

\* toolkit_status = self.check_nvidia_container_toolkit_status()
SToolkit ==
  /\ rpc = "toolkit"
  /\ LET r == CheckNvidiaContainerToolkitStatus(rin.toolkit)
     IN  IF r.raised
           THEN rpc' = "raised" /\ cstatus' = cstatus
           ELSE rpc' = "helm" /\ cstatus' = ("toolkit" :> r.value) @@ cstatus
  /\ UNCHANGED << clusterVars, pods, deployVars, rin, rstat, issues, rres,
                  buckets, rec, validation >>

\* helm_config_status = self.check_gpu_operator_helm_config()
SHelm ==
  /\ rpc = "helm"
  /\ rpc' = "done"
  /\ cstatus' = ("helm" :> CheckGpuOperatorHelmConfig(rin.helm, rin.values))
                   @@ cstatus
  /\ UNCHANGED << clusterVars, pods, deployVars, rin, rstat, issues, rres,
                  buckets, rec, validation >>

NextStatus == SPending \/ SDevicePlugin \/ SToolkit \/ SHelm

SpecStatus == InitStatus /\ [][NextStatus]_vars

\* ------------------------------------------------ check_local_node_config

\* The second step of SpecInspect gives the same text to the local-node
\* inspector, as the content of a candidate file that exists on the node.

\* @dataclass ContainerdConfig: the keyword arguments __init__ accepts
ContainerdConfigFields ==
  { "node_name", "config_path", "exists", "nvidia_runtime_configured",
    "config_content", "binary_name", "binary_exists", "binary_path_used",
    "error" }

\* check_local_node_config, try block: the keyword arguments it passes to
\* ContainerdConfig.  The marker test is on the text as read; the first
\* BinaryName line is used whatever the marker test says;
\* Path(binary_name).exists() is true for the empty name (the current
\* directory).
LocalKwargs(content, hostHasBinary) ==
  LET lines == Split(content, "\n")
      hits == { i \in 1..Len(lines) : IsBinaryNameLine(lines[i]) }
      path == IF hits = {} THEN << >>
              ELSE BinaryPathOf(lines[CHOOSE i \in hits : \A j \in hits : i <= j])
  IN  [ node_name |-> "localhost", config_path |-> "config_path",
        exists |-> TRUE,
        nvidia_runtime_configured |->
          Contains(content, MarkerNvidia) /\ Contains(content, MarkerRunc),
        config_content |-> content,
        binary_name |-> path,
        binary_exists |-> (hits # {} /\ (path = << >> \/ hostHasBinary)),
        binary_path_used |-> path,
        config_valid |-> TRUE ]

\* check_local_node_config, except Exception: the keyword arguments of the
\* record for a file that could not be processed
LocalErrorKwargs ==
  [ node_name |-> "localhost", config_path |-> "config_path", exists |-> TRUE,
    nvidia_runtime_configured |-> FALSE, config_content |-> << >>,
    config_valid |-> FALSE, error |-> "Failed to read" ]

\* check_local_node_config for one existing candidate file: the dataclass
\* constructor raises TypeError for a keyword that is no field; raised in the
\* try block it is caught by except Exception, raised in the handler it
\* leaves the function.
CheckLocalNodeConfig(content, hostHasBinary) ==
  IF DOMAIN LocalKwargs(content, hostHasBinary) \subseteq ContainerdConfigFields
    THEN [raised |-> FALSE, value |-> << LocalKwargs(content, hostHasBinary) >>]
  ELSE IF DOMAIN LocalErrorKwargs \subseteq ContainerdConfigFields
    THEN [raised |-> FALSE, value |-> << LocalErrorKwargs >>]
  ELSE [raised |-> TRUE, value |-> << >>]

\* containerd_configs = self.check_local_node_config()
ALocal ==
  /\ rpc = "local"
  /\ rres' = CheckLocalNodeConfig(rin.content, rin.binary)
  /\ rpc' = "done"
  /\ UNCHANGED << clusterVars, pods, deployVars, rin, rstat, issues, rec,
                  buckets, validation, cstatus >>

SpecInspect == InitInspect /\ [][AInspect \/ ALocal]_vars

\* ------------------------------------------ get_pending_gpu_pods, the list

\* SpecPending applies the loop of get_pending_gpu_pods to the items of a
\* well-formed pod listing.  A pod is its position in the listing, whether a
\* container has nvidia.com/gpu in resources.requests, status.phase, and the
\* state.waiting.reason of a container status ("" if none is waiting).

\* largest number of pods in the listing
MaxPods == 2

\* lines 92-121: the entry appended for pod number i, if any
PendingEntry(items, i) ==
  LET pod == items[i]
      has_errors == pod.waiting \in { "CreateContainerError", "ContainerStatusUnknown" }
  IN  IF pod.gpu /\ (pod.phase = "Pending" \/ has_errors)
        THEN << [name |-> i, status |-> pod.phase] >>
        ELSE << >>

RECURSIVE PendingGpuPods(_, _)
\* the loop over pods_data.get('items', []), from item i on
PendingGpuPods(items, i) ==
  IF i > Len(items) THEN << >>
  ELSE PendingEntry(items, i) \o PendingGpuPods(items, i + 1)

PodListings ==
  UNION { [1..n -> [ gpu : BOOLEAN,
                     phase : { "Pending", "Running", "Succeeded", "Failed", "Unknown" },
                     waiting : { "", "CreateContainerError",
                                 "ContainerStatusUnknown", "ImagePullBackOff" } ]] :
          n \in 0..MaxPods }

InitPending ==
  /\ RunIdle
  /\ DeployIdle
  /\ rpc = "pending"
  /\ rin \in PodListings
  /\ rstat = NoStatus
  /\ issues = << >>
  /\ AggIdle

\* pending_gpu_pods = self.get_pending_gpu_pods()
APending ==
  /\ rpc = "pending"
  /\ cstatus' = ("pending" :> PendingGpuPods(rin, 1)) @@ cstatus
  /\ rpc' = "done"
  /\ UNCHANGED << clusterVars, pods, deployVars, rin, rstat, issues, rres,
                  buckets, rec, validation >>

SpecPending == InitPending /\ [][APending]_vars

\* ================================================================ claims

Terminal == { "returned", "raised" }
Fatal(status) == status.execution_error # ErrNone

\* C1: when analyze_cluster returns normally for a non-empty node list, the
\* keys of results are exactly the discovered node names and each key was
\* assigned exactly once.
C1_OneOutcomePerNode ==
  (apc = "returned" /\ Len(nodes) > 0) =>
    /\ DOMAIN results = NodeSet
    /\ \A n \in AllNodes : writes[n] = IF n \in NodeSet THEN 1 ELSE 0

C1_Witness ==
  /\ apc = "returned" /\ Len(nodes) = 2
  /\ DOMAIN results = NodeSet
  /\ \E i, j \in Idx :
       /\ wres[i].raised
       /\ results[nodes[i]].execution_error.kind = "Analysis exception"
       /\ ~Fatal(results[nodes[j]])

\* C2: a worker that fails (provisioning failure, analysis failure, crash)
\* changes nothing for the others: at the return every node whose own worker
\* did not fail has its own outcome, without a fatal error, and results has
\* one entry per node.
C2_FailureIsolated ==
  apc = "returned" =>
    /\ Cardinality(DOMAIN results) = Len(nodes)
    /\ \A i \in Idx :
         ~ownFail[i] =>
           /\ nodes[i] \in DOMAIN results
           /\ results[nodes[i]] = wres[i].value
           /\ ~Fatal(results[nodes[i]])

C2_Witness ==
  /\ apc = "returned" /\ Len(nodes) = 2 /\ max_workers = 2
  /\ \E i, j \in Idx :
       /\ ownFail[i] /\ ~results[nodes[i]].debug_pod_deployed
       /\ Fatal(results[nodes[i]])
       /\ ~ownFail[j] /\ ~Fatal(results[nodes[j]])
       /\ results[nodes[j]].debug_pod_deployed

\* The worker of node i provisioned a pod: deploy_debug_pod returned success,
\* or it created the pod and gave up waiting for it.
Provisioned(i) ==
  /\ wpc[i] = "done"
  /\ \/ wres[i].value.debug_pod_deployed
     \/ wres[i].value.execution_error.kind = "Pod failed to start within timeout"

\* C3 as claimed: with cleanup set, no pod provisioned for a discovered node
\* during the run exists when analyze_cluster returns.
C3_NoPodAtReturn ==
  (apc = "returned" /\ cleanup) =>
    \A i \in Idx : Provisioned(i) => pods[Pod(i)] = "absent"

\* C3 as amended: with cleanup set, when analyze_cluster returns a delete has
\* been issued for every discovered node's pod, and a pod that still exists is
\* one whose latest delete failed.
C3_NoPodAtReturnUnlessDeleteFailed ==
  (apc = "returned" /\ cleanup) =>
    \A i \in Idx :
      /\ deletes[Pod(i)] >= 1
      /\ pods[Pod(i)] = "absent" \/ lastDelete[Pod(i)].rc # 0

C3_Witness ==
  /\ apc = "returned" /\ cleanup /\ Len(nodes) = 2
  /\ \A i \in Idx :
       /\ creates[i] = 1 /\ results[nodes[i]].debug_pod_deployed
       /\ lastDelete[Pod(i)].existed /\ lastDelete[Pod(i)].rc = 0
       /\ pods[Pod(i)] = "absent"

\* C4: with cleanup set, when analyze_cluster is left after a
\* KeyboardInterrupt that arrived while it submitted, collected or joined
\* (none arrived inside the sweep), a delete has been issued for every
\* discovered node's pod.
C4_SweepAfterInterrupt ==
  (apc \in Terminal /\ cleanup /\ interrupts >= 1 /\ ~sweepCut) =>
    \A i \in Idx : deletes[Pod(i)] >= 1

C4_Witness ==
  /\ apc = "raised" /\ cleanup /\ ~sweepCut /\ Len(nodes) = 2
  /\ collected # Idx
  /\ \E i \in Idx : wpc[i] \in { "create", "poll", "cfg", "probe" }
  /\ \A i \in Idx : deletes[Pod(i)] >= 1

\* C5 as claimed: a worker that never finishes does not hang
\* analyze_cluster: while the call is not over, the main thread or a pool
\* thread can take a step, and once it is over that worker's node is in
\* results with a timeout error.
C5_HungWorkerDoesNotBlock ==
  \A i \in Idx :
    wpc[i] = "hung" =>
      IF apc \in Terminal
        THEN /\ nodes[i] \in DOMAIN results
             /\ results[nodes[i]].execution_error.kind = "Analysis exception"
        ELSE ENABLED (MainStep \/ WorkerStep)

\* C6 as claimed: with cleanup set, at the return the pod of every node whose
\* worker failed inside the try block has had exactly one kubectl delete.
C6_DeleteExactlyOnce ==
  (apc = "returned" /\ cleanup) =>
    \A i \in Idx :
      wres[i].value.execution_error.kind = "Analysis failed" =>
        deletes[Pod(i)] = 1

\* C7 as claimed: once analyze_single_node has returned for a node it
\* provisioned, and before the sweep, that node's pod does not exist.
C7_WorkerTearsDownOwnPod ==
  \A i \in Idx :
    ( /\ wpc[i] = "done" /\ ~wres[i].raised
      /\ wres[i].value.debug_pod_deployed
      /\ apc \in { "submit", "collect", "shutdown" } ) =>
    pods[Pod(i)] = "absent"

C8_TimeoutAfterPollLimit ==
  /\ attempt <= PollLimit /\ dobs.polls <= PollLimit
  /\ ( /\ dret.returned /\ dobs.created
       /\ ~(dobs.phase = "Running" /\ dobs.ready = "true") ) =>
       /\ ~dret.success
       /\ dobs.raised => dret.error.kind = "Exception deploying pod"
       /\ ~dobs.raised =>
            /\ dobs.polls = PollLimit /\ attempt = PollLimit
            /\ dobs.desc # "-"
            /\ dret.error = Err("Pod failed to start within timeout", dobs.desc)

C8_Witness ==
  /\ dret.returned /\ dobs.created /\ ~dret.success
  /\ dobs.polls = PollLimit
  /\ dobs.phase = "Running" /\ dobs.ready = "false"
  /\ dret.error = Err("Pod failed to start within timeout", "Running")

\* C9: a call that created the pod returns success only out of an iteration
\* whose phase query printed Running and whose ready query printed true.
C9_SuccessOnlyWhenReady ==
  (dret.returned /\ dret.success /\ dobs.created) =>
    /\ dobs.phase = "Running" /\ dobs.ready = "true"
    /\ dobs.polls = attempt + 1

C9_Witness ==
  /\ dret.returned /\ dret.success /\ dobs.created
  /\ dobs.polls = 3 /\ dobs.ready = "true"

\* C11 as claimed: every remote call of a worker has a deadline, so no
\* worker stays blocked in a remote call for ever.
C11_NoWorkerBlockedForEver ==
  \A i \in Idx : wpc[i] # "hung"

ProvisioningErrors ==
  { "Failed to create pod", "Pod failed to start within timeout",
    "Exception deploying pod" }

\* C12: a worker that issued a remote call and is over has returned a
\* NodeGPUStatus of its own node, whichever of create, polling, config
\* discovery and probe failed: with the pod deployed and no error, with the
\* pod deployed and "Analysis failed", or with a provisioning error; its
\* future holds no exception.
C12_WorkerAlwaysReturnsStatus ==
  \A i \in Idx :
    (wpc[i] = "done" /\ (found[i] \/ creates[i] >= 1)) =>
      /\ ~wres[i].raised
      /\ wres[i].value.node_name = nodes[i]
      /\ wres[i].value.execution_error.kind \in
           IF wres[i].value.debug_pod_deployed
             THEN { None, "Analysis failed" }
             ELSE ProvisioningErrors

C12_Witness ==
  /\ Len(nodes) = 2
  /\ \A i \in Idx : wpc[i] = "done" /\ ~wres[i].raised
  /\ \E i, j \in Idx :
       /\ creates[i] = 1
       /\ wres[i].value.execution_error.kind = "Analysis failed"
       /\ creates[j] = 1
       /\ wres[j].value.execution_error.kind = "Pod failed to start within timeout"

\* C13: a worker whose provisioning failed returns an outcome with the error
\* set, no records, debug_pod_deployed False and gpu_failure_symptoms None,
\* and config discovery never ran for it.
C13_ProvisionFailureOutcome ==
  \A i \in Idx :
    ( /\ wpc[i] = "done" /\ ~wres[i].raised
      /\ wres[i].value.execution_error.kind \in ProvisioningErrors ) =>
      /\ wres[i].value =
           NodeGPUStatus(nodes[i], <<>>, None, FALSE, wres[i].value.execution_error)
      /\ wcfg[i] = <<>>

C13_Witness ==
  /\ Len(nodes) = 2
  /\ \E i, j \in Idx :
       /\ wpc[i] = "done" /\ creates[i] = 1
       /\ wres[i].value.execution_error.kind = "Failed to create pod"
       /\ wres[i].value.containerd_configs = <<>>
       /\ ~wres[i].value.debug_pod_deployed
       /\ wpc[j] = "done"
       /\ wres[j].value.execution_error.kind = "Exception deploying pod"

\* C14 as claimed: a run whose node listing failed does not end in a normal
\* return, which is how a run that discovered zero nodes ends.
C14_DiscoveryFailureSurfaced ==
  discoveryFailed => apc # "returned"

\* C15: with an empty node list analyze_cluster returns the empty mapping
\* straight away: nothing is raised, stored, created or deleted.
C15_ZeroNodes ==
  (Len(nodes) = 0 /\ apc # "start") =>
    /\ apc = "returned" /\ ~exc
    /\ results = << >>
    /\ \A p \in PodNames : deletes[p] = 0 /\ pods[p] = "absent"

C15_Witness ==
  /\ ~discoveryFailed /\ Len(nodes) = 0
  /\ apc = "returned" /\ results = << >>

Waiting == { "unsubmitted", "queued" }

\* C16: never more than max_workers calls of analyze_single_node are under
\* way; nodes are submitted and started in node-list order; at a normal
\* return every node's worker has run.
C16_BoundedFifoPool ==
  /\ Cardinality(Busy) <= max_workers
  /\ \A i, j \in Idx :
       i < j =>
         /\ wpc[j] # "unsubmitted" => wpc[i] # "unsubmitted"
         /\ wpc[j] \notin Waiting => wpc[i] \notin Waiting
  /\ apc = "returned" => \A i \in Idx : wpc[i] = "done"

C16_Witness ==
  /\ max_workers = 1 /\ Len(nodes) = 2
  /\ wpc[1] = "probe" /\ wpc[2] = "queued"

\* C17 as claimed: a node's records exist only once its config discovery is
\* over, and no delete of its pod is issued while its worker is still in
\* config discovery or the probe.
C17_StrictOrderPerNode ==
  \A i \in Idx :
    /\ wcfg[i] # << >> => wpc[i] \in { "probe", "done" }
    /\ wpc[i] \in { "cfg", "probe" } => deletes[Pod(i)] = 0

\* C18 as claimed: whenever deploy_debug_pod reports success to a worker,
\* by the lookup or by the readiness loop, the pod is Running with its
\* container ready at that moment.
C18_CommandsReachReadyPod ==
  [][ \A i \in Idx :
        (wpc[i] \in { "lookup", "poll" } /\ wpc'[i] = "cfg") =>
          pods[Pod(i)] = "Ready" ]_vars

\* C19: config discovery on a provisioned node returns NumConfigPaths records,
\* the k-th for the k-th candidate path, whatever the exec calls of each
\* path did; a path without file, and a path whose exec raised, has a record
\* with exists False.
C19_OneRecordPerPath ==
  (rpc \in { "report", "done" } /\ rstat.debug_pod_deployed) =>
    LET cfgs == rstat.containerd_configs
    IN  /\ Len(cfgs) = NumConfigPaths
        /\ \A k \in 1..NumConfigPaths :
             /\ cfgs[k].config_path = k
             /\ cfgs[k].node_name = nodes[1]
             /\ ~rin.host.files[k].present => ~cfgs[k].exists
             /\ rin.outs[k] = "raise" =>
                  ~cfgs[k].exists /\ cfgs[k].error = "Exception"

C19_Witness ==
  /\ rpc = "done" /\ rstat.debug_pod_deployed
  /\ Len(rstat.containerd_configs) = NumConfigPaths
  /\ ~rin.host.files[1].present /\ ~rstat.containerd_configs[1].exists
  /\ rstat.containerd_configs[2].nvidia_runtime_configured
  /\ rin.outs[3] = "raise" /\ rstat.containerd_configs[3].error = "Exception"

\* C20 as claimed: for a node without execution_error the issue list has a
\* not-configured entry exactly when no record is configured, and a
\* binary-not-found entry exactly when some record is configured with
\* binary_exists False.
C20_IssuesMatchRecords ==
  (rpc = "done" /\ rstat.execution_error = ErrNone) =>
    LET cfgs == rstat.containerd_configs
        Listed(kind) == \E k \in DOMAIN issues : issues[k].kind = kind
    IN  /\ Listed("NVIDIA runtime not configured") <=>
             ~ \E k \in DOMAIN cfgs : cfgs[k].nvidia_runtime_configured
        /\ Listed("NVIDIA runtime binary not found") <=>
             \E k \in DOMAIN cfgs :
               cfgs[k].nvidia_runtime_configured /\ ~cfgs[k].binary_exists

KindRank(kind) ==
  IF kind = "NVIDIA runtime binary not found" THEN 1 ELSE 2

\* C21 as claimed: in the list get_runtime_config_issues returns, no
\* not-configured entry comes before a binary-not-found entry, whatever the
\* order of results.
C21_IssueListPrioritized ==
  rpc = "done" =>
    \A j, k \in DOMAIN issues :
      j < k => KindRank(issues[j].kind) <= KindRank(issues[k].kind)

Healthy(status) ==
  /\ status.execution_error = ErrNone
  /\ \E k \in DOMAIN status.containerd_configs :
       status.containerd_configs[k].nvidia_runtime_configured
  /\ \A k \in DOMAIN status.containerd_configs :
       status.containerd_configs[k].nvidia_runtime_configured =>
         status.containerd_configs[k].binary_exists

\* how often node n is listed in the issue list and in the three
\* recommendation lists
IssueEntries(n) == Cardinality({ k \in DOMAIN issues : issues[k].node = n })
BucketEntries(n) ==
  Cardinality({ k \in DOMAIN buckets.lists.missing_binary_nodes :
                  buckets.lists.missing_binary_nodes[k].node = n })
  + Cardinality({ k \in DOMAIN buckets.lists.unconfigured_nodes :
                    buckets.lists.unconfigured_nodes[k] = n })
  + Cardinality({ k \in DOMAIN buckets.lists.error_nodes :
                    buckets.lists.error_nodes[k] = n })

\* C22 as claimed: a healthy node is listed nowhere, every node is listed at
\* most once, and for the outcomes of hosts A, B and C in any order the issue
\* list is [binary not found: B, not configured: C].
C22_OneBucketPerNode ==
  rpc = "done" =>
    /\ \A k \in DOMAIN rres :
         /\ Healthy(rres[k]) =>
              IssueEntries(rres[k].node_name) = 0 /\ BucketEntries(rres[k].node_name) = 0
         /\ IssueEntries(rres[k].node_name) <= 1
         /\ BucketEntries(rres[k].node_name) <= 1
    /\ { rres[k] : k \in DOMAIN rres } = { Analyzed(n, HostOf(n)) : n \in AllNodes } =>
         issues = << [kind |-> "NVIDIA runtime binary not found", node |-> N2,
                      binary |-> RuntimeBin],
                     [kind |-> "NVIDIA runtime not configured", node |-> N3,
                      binary |-> ""] >>

\* C23: an entry of results with execution_error set has no records and no
\* gpu_failure_symptoms, adds nothing to the issue list, counts only as a
\* node with errors in the summary and is listed only under error_nodes.
C23_FatalOutcomeIsEmpty ==
  \A n \in DOMAIN results :
    Fatal(results[n]) =>
      /\ results[n].containerd_configs = << >>
      /\ results[n].gpu_failure_symptoms = None
      /\ NodeIssues(results[n]) = << >>
      /\ Summary(<< results[n] >>) =
           [total_nodes |-> 1, nodes_with_nvidia_runtime |-> 0,
            nodes_with_errors |-> 1, nodes_with_configs |-> 0,
            nodes_with_missing_binary |-> 0]
      /\ Recommendations(<< results[n] >>) =
           [missing_binary_nodes |-> << >>, unconfigured_nodes |-> << >>,
            error_nodes |-> << n >>]

C23_Witness ==
  /\ apc = "returned" /\ Len(nodes) = 2
  /\ \E i, j \in Idx :
       /\ results[nodes[i]].execution_error.kind = "Analysis failed"
       /\ results[nodes[i]].debug_pod_deployed
       /\ results[nodes[j]].execution_error.kind = "Pod failed to start within timeout"

\* A kubectl exec issued for candidate path k did not do its work: the pod
\* was not reachable, subprocess.run raised, or a command whose subject is
\* there (the file for `test -f` and `cat`, the declared binary's check)
\* failed or timed out.
RemoteError(k) ==
  LET file == rin.host.files[k]
  IN  \/ ~rin.reaches
      \/ rin.outs[k] = "raise"
      \/ rin.outs[k] \in { "test_fail", "cat_fail" } /\ file.present
      \/ /\ rin.outs[k] = "bin_fail"
         /\ file.present /\ file.nvidia /\ file.runc /\ file.binary # ""

\* C24: a remote command that errors or times out during config discovery or
\* binary verification leaves the node's outcome non-fatal, marks the
\* affected record with an error, and no issue entry is derived from records
\* that all met such an error.
C24_RemoteErrorsMarkedUnavailable ==
  (rpc # "discover" /\ rstat.debug_pod_deployed) =>
    /\ rstat.execution_error = ErrNone
    /\ \A k \in 1..NumConfigPaths :
         RemoteError(k) => rstat.containerd_configs[k].error # None
    /\ (rpc = "done" /\ \A k \in 1..NumConfigPaths : RemoteError(k))
         => issues = << >>

\* C25: once a delete of the sweep has failed or timed out, the call is not
\* left with an exception, the sweep goes on to the remaining nodes (at
\* return every node's pod has had its delete), and results is what the
\* collection loop stored.
C25_DeleteFailureNotEscalated ==
  (cleanup /\ \E p \in PodNames : deletes[p] >= 1 /\ lastDelete[p].rc # 0) =>
    /\ apc \in { "sweep", "returned" }
    /\ ~exc
    /\ apc = "sweep" => sweepIdx <= Len(nodes)
    /\ apc = "returned" => \A i \in Idx : deletes[Pod(i)] >= 1
    /\ DOMAIN results = NodeSet
    /\ \A i \in Idx : results[nodes[i]] = Collected(i)

C25_Witness ==
  /\ apc = "returned" /\ cleanup /\ Len(nodes) = 2
  /\ Pod(1) # Pod(2)
  /\ deletes[Pod(1)] = 1 /\ lastDelete[Pod(1)].rc # 0 /\ pods[Pod(1)] # "absent"
  /\ deletes[Pod(2)] = 1 /\ lastDelete[Pod(2)].rc = 0 /\ lastDelete[Pod(2)].existed

\* word occurs in str, whatever the case of each character
ContainsAnyCase(str, word) ==
  \E i \in 1..(Len(str) - Len(word) + 1) :
    \A j \in 1..Len(word) :
      \/ str[i + j - 1] = word[j]
      \/ \E u \in 1..Len(UpperCase) :
           { str[i + j - 1], word[j] } = { UpperCase[u], LowerCase[u] }

\* C26: the record of a fetched text has nvidia_runtime_configured set exactly
\* when the text contains 'nvidia' and contains 'runc', each in any case.
C26_ConfiguredIffBothMarkers ==
  rpc = "done" =>
    (rec.nvidia_runtime_configured <=>
       /\ ContainsAnyCase(rin.content, MarkerNvidia)
       /\ ContainsAnyCase(rin.content, MarkerRunc))

C26_Witness ==
  /\ rpc = "done"
  /\ rec.nvidia_runtime_configured
  /\ Contains(rin.content, << "N", "V", "I", "D", "I", "A" >>)
  /\ Contains(rin.content, << "R", "u", "n", "C" >>)

\* C27: for a fetched text with a BinaryName assignment line, binary_name of
\* the record is the right-hand side of the first such line without the
\* surrounding blanks and quotes, for each candidate path; the text
\* BinaryName = "/foo" gives /foo.
C27_BinaryPathExtracted ==
  rpc = "done" =>
    /\ (\E l \in 1..Len(Split(rin.content, "\n")) :
          IsBinaryNameLine(Split(rin.content, "\n")[l]))
         => rec.binary_name = ExtractBinaryPath(rin.content, rin.binary).binary_name
    /\ rin.content = Join(<< << "B", "i", "n", "a", "r", "y", "N", "a", "m", "e", " ", "=", " ", "\"", "/", "f", "o", "o", "\"" >> >>) => rec.binary_name = << "/", "f", "o", "o" >>

\* The requirements the toolkit section violates: enabled is not true, a
\* field differs from its expected value, a required variable is not in env
\* with its expected value.
ViolatedRequirements ==
  (IF rin.enabled # "True" THEN { "enabled" } ELSE {})
  \cup { RequiredFields[i] : i \in { j \in 1..Len(RequiredFields) :
           rin.fields[RequiredFields[j]] # ExpectedValue(RequiredFields[j]) } }
  \cup { RequiredEnvVars[i].name : i \in { j \in 1..Len(RequiredEnvVars) :
           ~(rin.env.list /\ EnvFound(rin.env.items, RequiredEnvVars[j])) } }

\* C28: toolkit_config_valid is true exactly when no requirement is violated;
\* missing_configs has one entry for each violated requirement, and is empty
\* iff the configuration is valid.
C28_ExactValidation ==
  rpc = "done" =>
    /\ validation.toolkit_config_valid <=> ViolatedRequirements = {}
    /\ Len(validation.missing_configs) = Cardinality(ViolatedRequirements)
    /\ validation.missing_configs = << >> <=> validation.toolkit_config_valid

\* output that is not JSON/YAML, or JSON/YAML of a shape the code does not read
Malformed ==
  { "bad_json", "bad_shape", "flux_bad_json", "flux_bad_shape",
    "list_bad_json", "list_bad_shape", "values_bad_yaml", "values_bad_shape" }

\* C29: no status fetch raises out of print_cluster_report, and a fetch whose
\* input was malformed yields an explicit error value: not the empty
\* pending-pod list, an 'error' key for the device plugin, an 'Error: ...'
\* text for the toolkit daemonset, a non-empty errors list for the release.
C29_MalformedStatusIsExplicit ==
  /\ rpc # "raised"
  /\ ("pending" \in DOMAIN cstatus /\ rin.pending \in Malformed)
       => cstatus["pending"] # << >>
  /\ ("plugin" \in DOMAIN cstatus /\ rin.plugin \in Malformed)
       => "error" \in DOMAIN cstatus["plugin"]
  /\ ("toolkit" \in DOMAIN cstatus /\ rin.toolkit \in Malformed)
       => cstatus["toolkit"] = "Error: Failed to parse toolkit status"
  /\ ("helm" \in DOMAIN cstatus /\ rin.helm \in Malformed)
       => cstatus["helm"].errors # << >>

\* C30: the manifest applied for a node is pinned to the node, shares the
\* host's network, PID and IPC namespaces, runs its containers privileged,
\* mounts each of its hostPath volumes and every mount read-only, and is
\* named as the lookup of deploy_debug_pod and the delete of the sweep name
\* the node's pod; the pod it creates exists under that name.
C30_PodSpecShape ==
  dobs.created =>
    LET manifest == dobs.applied
        containers == manifest.spec.containers
        volumes == manifest.spec.volumes
    IN  /\ manifest.spec.nodeName = nodes[1]
        /\ manifest.spec.hostNetwork /\ manifest.spec.hostPID /\ manifest.spec.hostIPC
        /\ \A c \in 1..Len(containers) :
             /\ containers[c].securityContext.privileged
             /\ \A m \in 1..Len(containers[c].volumeMounts) :
                  containers[c].volumeMounts[m].readOnly
        /\ \A v \in 1..Len(volumes) :
             \E c \in 1..Len(containers) :
               \E m \in 1..Len(containers[c].volumeMounts) :
                 containers[c].volumeMounts[m].name = volumes[v].name
        /\ manifest.metadata.name = Pod(1)
        /\ manifest.metadata.name = PodName(nodes[1])
        /\ pods[manifest.metadata.name] # "absent"
        /\ (dret.returned /\ dret.success) => dret.pod_name = manifest.metadata.name

C30_Witness ==
  /\ dobs.created /\ nodes[1] = N1
  /\ dobs.applied.metadata.name = << "gpu-debug", "-", "a", "-", "b" >>
  /\ dret.returned /\ dret.success
  /\ pods[Pod(1)] = "Ready"

\* C32 as claimed: once the sweep has started, no worker takes a step (it
\* has finished or is never started), and so none issues kubectl apply.
C32_NoCreateAfterSweepStarts ==
  [][ \A i \in Idx :
        wpc'[i] # wpc[i] =>
          /\ apc # "sweep"
          /\ \A p \in PodNames : deletes[p] = 0 ]_vars

\* C33 as claimed: the pod names derived for distinct discovered nodes are
\* distinct, and a worker that finds its pod by the lookup finds a pod that
\* no other worker of the run created.
C33_PodNamesInjective ==
  \A i, j \in Idx :
    i # j =>
      /\ Pod(i) # Pod(j)
      /\ ~(found[i] /\ creates[j] > 0 /\ Pod(i) = Pod(j))

\* C34: with cleanup not set no kubectl delete is issued; when
\* analyze_cluster returns, the pod of every node reported as deployed
\* exists, and results holds for each node what the collection loop stored
\* for it, which is what it holds at a return with cleanup set.
C34_NoCleanupLeavesPods ==
  /\ ~cleanup => \A p \in PodNames : deletes[p] = 0
  /\ (apc = "returned" /\ ~cleanup) =>
       \A i \in Idx :
         results[nodes[i]].debug_pod_deployed => pods[Pod(i)] # "absent"
  /\ (apc = "returned" /\ Len(nodes) > 0) =>
       /\ DOMAIN results = NodeSet
       /\ \A i \in Idx : results[nodes[i]] = Collected(i)

C34_Witness ==
  /\ apc = "returned" /\ ~cleanup /\ Len(nodes) = 2
  /\ Pod(1) # Pod(2)
  /\ \A i \in Idx :
       /\ creates[i] = 1 /\ results[nodes[i]].debug_pod_deployed
       /\ pods[Pod(i)] \in { "Ready", "Succeeded" }

\* C35: an entry of results without execution_error has
\* debug_pod_deployed set, one record for each of the NumConfigPaths
\* candidate paths and a gpu_failure_symptoms text; an entry with
\* debug_pod_deployed not set has execution_error.
C35_OutcomeShape ==
  \A n \in DOMAIN results :
    /\ ~Fatal(results[n]) =>
         /\ results[n].debug_pod_deployed
         /\ Len(results[n].containerd_configs) = NumConfigPaths
         /\ results[n].gpu_failure_symptoms # None
    /\ ~results[n].debug_pod_deployed => Fatal(results[n])

C35_Witness ==
  /\ apc = "returned" /\ Len(nodes) = 2
  /\ \E i, j \in Idx :
       /\ ~Fatal(results[nodes[i]])
       /\ results[nodes[i]].gpu_failure_symptoms = "GPU detection timed out"
       /\ ~results[nodes[j]].debug_pod_deployed

\* C36: in every record of remote config discovery, binary_exists and a
\* non-empty binary_name each imply nvidia_runtime_configured,
\* nvidia_runtime_configured implies exists and a content with both markers,
\* and the record of an iteration that raised has exists false and an error.
C36_RecordInvariants ==
  (rpc # "discover" /\ rstat.debug_pod_deployed) =>
    \A k \in 1..NumConfigPaths :
      LET c == rstat.containerd_configs[k]
      IN  /\ c.binary_exists => c.nvidia_runtime_configured
          /\ c.binary_name # "" => c.nvidia_runtime_configured
          /\ c.nvidia_runtime_configured =>
               /\ c.exists
               /\ c.config_content # EmptyText
               /\ c.config_content.nvidia /\ c.config_content.runc
          /\ rin.outs[k] = "raise" => (~c.exists /\ c.error # None)

C36_Witness ==
  /\ rpc = "done" /\ rstat.debug_pod_deployed
  /\ rstat.containerd_configs[1].binary_exists
  /\ rstat.containerd_configs[1].binary_name = RuntimeBin
  /\ rin.outs[2] = "raise" /\ rstat.containerd_configs[2].error # None

\* C37: when every cluster API call returns, analyze_cluster returns; at that
\* point every worker has run and is done, having issued at most one kubectl
\* apply and fetched none or all NumConfigPaths records, and with cleanup set
\* the sweep has issued one delete for each node (none without cleanup or
\* for an empty node list).
C37_Terminates ==
  <>( /\ apc = "returned"
      /\ \A i \in Idx :
           /\ wpc[i] = "done"
           /\ creates[i] <= 1
           /\ Len(wcfg[i]) \in { 0, NumConfigPaths }
      /\ \A p \in PodNames :
           deletes[p] = IF cleanup
                          THEN Cardinality({ i \in Idx : Pod(i) = p })
                          ELSE 0 )

C37_Witness ==
  /\ apc = "returned" /\ cleanup
  /\ Len(nodes) = 2 /\ max_workers = 1
  /\ \A i \in Idx : wpc[i] = "done" /\ Len(wcfg[i]) = NumConfigPaths
  /\ \A i \in Idx : deletes[Pod(i)] >= 1

\* C38 as claimed: for the same text the local inspector returns a list
\* without raising, and its record has the nvidia_runtime_configured and
\* the binary_name of the remote inspector's record.
C38_LocalMatchesRemote ==
  rpc = "done" =>
    /\ ~rres.raised
    /\ Len(rres.value) = 1
    /\ rres.value[1].nvidia_runtime_configured = rec.nvidia_runtime_configured
    /\ rres.value[1].binary_name = rec.binary_name

\* C31 as claimed: the pending list names exactly the pods of the listing
\* that request nvidia.com/gpu and are in phase Pending, in phase Failed, or
\* have a container waiting with an error reason.
C31_PendingListExact ==
  rpc = "done" =>
    { cstatus["pending"][k].name : k \in 1..Len(cstatus["pending"]) } =
      { i \in 1..Len(rin) :
          /\ rin[i].gpu
          /\ \/ rin[i].phase \in { "Pending", "Failed" }
             \/ rin[i].waiting \in { "CreateContainerError", "ContainerStatusUnknown" } }

====
